---------------------------- MODULE Spec2Model ----------------------------
(***************************************************************************)
(* ripin: Reverse Polish Notation expressions.                             *)
(*                                                                         *)
(* The module follows one Expression through its life: from_iter pulls    *)
(* raw tokens from an iterator and classifies them, check_validity and    *)
(* compute_stack_max run on the classified sequence, and                  *)
(* evaluate_with_variables replays the sequence on a Stack.               *)
(*                                                                         *)
(* A raw token is a string slice, modelled as a sequence of one-character *)
(* strings.  The type parameters <T, V, E> of Expression are fixed by     *)
(* `family`:                                                              *)
(*   "IntExpr"         Expression<i8, DummyVariable, IntEvaluator<i8>>     *)
(*   "VariableIntExpr" Expression<i8, VarIdx, IntEvaluator<i8>>, evaluated *)
(*                     with a Vec<i8> container                           *)
(*   "KeyedIntExpr"    Expression<i8, i8, IntEvaluator<i8>>, evaluated     *)
(*                     with a BTreeMap<i8, i8> container                  *)
(*   "VariableFloatExpr" Expression<f32, VarIdx, FloatEvaluator<f32>>,     *)
(*                     evaluated with a Vec<f32> container                *)
(*   "FloatExpr"       Expression<f32, DummyVariable, FloatEvaluator<f32>> *)
(*                                                                         *)
(* Integer arithmetic is exact at the width of i8.  Floating-point        *)
(* arithmetic is kept symbolic: a float is the decimal it was parsed from *)
(* or the term of the operation that produced it.  FloatEvaluator has no  *)
(* error and never branches on a value, so the terms decide nothing about *)
(* control flow.                                                          *)
(***************************************************************************)
EXTENDS Integers, Sequences, FiniteSets, TLC

VARIABLES
    family,     \* the instantiation <T, V, E> of Expression
    input,      \* raw tokens the iterator has yielded to from_iter so far
    final_expr, \* from_iter: the tokens classified so far (Vec<Arithm>)
    result,     \* from_iter: its return value, [tag |-> "None"] while running
    max_stack,  \* Expression.max_stack
    expr,       \* Expression.expr
    pc,         \* position of the running call
    variables,  \* evaluate_with_variables: the container passed by reference
    stack,      \* evaluate_with_variables: its local Stack
    ip,         \* evaluate_with_variables: index of the next token of expr
    locals,     \* Evaluate::evaluate: the operands popped by the evaluator
    outcome,    \* evaluate_with_variables: how the call ended
    concurrent, \* a second call of evaluate_with_variables on the same
                \* Expression, from another thread: its container, its
                \* local Stack, its position and how it ended
    rendered    \* the String to_string() returned for the Expression

vars == <<family, input, final_expr, result, max_stack, expr, pc,
          variables, stack, ip, locals, outcome, concurrent, rendered>>

-----------------------------------------------------------------------------
(* Bounds of the exploration *)

\* longest token sequence the iterator yields, apart from the sequences of
\* TestInputs and DeepInputs
MaxLen == 4

\* in a direct call of Evaluate::evaluate, the largest number of elements
\* the stack holds below the operands
MaxBelow == 1

-----------------------------------------------------------------------------
(* Result<T, E> and Option<T> *)

Ok(v) == [ok |-> TRUE, val |-> v]
Err(e) == [ok |-> FALSE, err |-> e]

Some(v) == [some |-> TRUE, val |-> v]
None == [some |-> FALSE]

-----------------------------------------------------------------------------
(* Primitive integers *)

\* i8, the narrowest type IntEvaluator is instantiated with in the tests
I8Min == -128
I8Max == 127

InI8(x) == I8Min <= x /\ x <= I8Max

Digits == {"0", "1", "2", "3", "4", "5", "6", "7", "8", "9"}

DigitVal(c) ==
    CASE c = "0" -> 0 [] c = "1" -> 1 [] c = "2" -> 2 [] c = "3" -> 3
      [] c = "4" -> 4 [] c = "5" -> 5 [] c = "6" -> 6 [] c = "7" -> 7
      [] c = "8" -> 8 [] c = "9" -> 9

Tail2(s) == SubSeq(s, 2, Len(s))

\* core::num::from_str_radix, radix 10: the digit loop.  Each step multiplies
\* the accumulator by ten and adds (or, after a '-', subtracts) the digit,
\* both checked against the range of the target type.
RECURSIVE FromStrDigits(_, _, _, _, _, _)
FromStrDigits(digits, i, acc, is_positive, min, max) ==
    IF i > Len(digits) THEN Ok(acc)
    ELSE IF digits[i] \notin Digits THEN Err("InvalidDigit")
    ELSE LET mul == acc * 10
             next == IF is_positive THEN mul + DigitVal(digits[i])
                                    ELSE mul - DigitVal(digits[i])
         IN  IF mul > max \/ next > max THEN Err("PosOverflow")
             ELSE IF mul < min \/ next < min THEN Err("NegOverflow")
             ELSE FromStrDigits(digits, i + 1, next, is_positive, min, max)

\* core::num::from_str_radix, radix 10: empty input, a lone sign, the sign
\* (a '-' is a sign for signed types only), then the digits.
FromStrRadix10(src, is_signed_ty, min, max) ==
    IF src = <<>> THEN Err("Empty")
    ELSE IF src = <<"+">> \/ src = <<"-">> THEN Err("InvalidDigit")
    ELSE IF src[1] = "+" THEN FromStrDigits(Tail2(src), 1, 0, TRUE, min, max)
    ELSE IF src[1] = "-" /\ is_signed_ty
         THEN FromStrDigits(Tail2(src), 1, 0, FALSE, min, max)
    ELSE FromStrDigits(src, 1, 0, TRUE, min, max)

\* <i8 as FromStr>::from_str
I8FromStr(s) == FromStrRadix10(s, TRUE, I8Min, I8Max)

DigitChar(d) == CHOOSE c \in Digits : DigitVal(c) = d

\* the decimal digits of a natural number, without leading zeros
RECURSIVE NatDigits(_)
NatDigits(n) ==
    IF n < 10 THEN <<DigitChar(n)>>
    ELSE NatDigits(n \div 10) \o <<DigitChar(n % 10)>>

\* <i8 as Display>::fmt: a '-' for a negative value, then the digits
I8Display(n) ==
    IF n < 0 THEN <<"-">> \o NatDigits(-n) ELSE NatDigits(n)

\* <usize as FromStr>::from_str.  usize::MAX is beyond the integers of the
\* model checker; the raw tokens of the model have at most a few digits, so
\* the accumulator stays far below the limit written here.
UsizeFromStr(s) == FromStrRadix10(s, FALSE, 0, 2147483647)

-----------------------------------------------------------------------------
(* Stack<T>: a Vec<T> used from its back *)

StackNew == <<>>

StackLen(s) == Len(s)

StackPush(s, value) == Append(s, value)

\* Stack::pop: the popped value (None on an empty stack) and the stack left
StackPop(s) ==
    IF Len(s) = 0 THEN [val |-> None, stack |-> s]
    ELSE [val |-> Some(s[Len(s)]), stack |-> SubSeq(s, 1, Len(s) - 1)]

\* Faulty variant of pop_two_operands: the pair is returned as (a, b), in
\* the order of the pops.
PopTwoOperandsReversed(s) ==
    IF StackLen(s) >= 2
    THEN LET p1 == StackPop(s)
             p2 == StackPop(p1.stack)
             a == p1.val.val
             b == p2.val.val
         IN  [val |-> Some(<<a, b>>), stack |-> p2.stack]
    ELSE [val |-> None, stack |-> s]

\* Faulty variant of pop_two_operands: the two pops are made before the
\* length is looked at, so that a lone element is removed.
PopTwoOperandsPopFirst(s) ==
    LET p1 == StackPop(s)
        p2 == StackPop(p1.stack)
    IN  IF p1.val.some /\ p2.val.some
        THEN [val |-> Some(<<p2.val.val, p1.val.val>>), stack |-> p2.stack]
        ELSE [val |-> None, stack |-> p2.stack]

\* pop_two_operands: with two elements or more, a is popped first and b
\* second, and the pair is returned as (b, a); the stack is left alone
\* otherwise.
PopTwoOperands(s) ==
    IF StackLen(s) >= 2
    THEN LET p1 == StackPop(s)
             p2 == StackPop(p1.stack)
             a == p1.val.val
             b == p2.val.val
         IN  [val |-> Some(<<b, a>>), stack |-> p2.stack]
    ELSE [val |-> None, stack |-> s]

-----------------------------------------------------------------------------
(* IntEvaluator<i8> *)

IntEvaluator ==
    {"Add", "Sub", "Mul", "Div", "Rem", "Neg", "Pow", "Swap", "Zero", "One"}

\* <IntEvaluator as TryFromRef<&str>>::try_from_ref
IntEvaluatorTryFromRef(tok) ==
    CASE tok = <<"+">> -> Ok("Add")
      [] tok = <<"-">> -> Ok("Sub")
      [] tok = <<"*">> -> Ok("Mul")
      [] tok = <<"/">> -> Ok("Div")
      [] tok = <<"%">> -> Ok("Rem")
      [] tok = <<"n", "e", "g">> -> Ok("Neg")
      [] tok = <<"p", "o", "w">> -> Ok("Pow")
      [] tok = <<"s", "w", "a", "p">> -> Ok("Swap")
      [] tok = <<"z", "e", "r", "o">> -> Ok("Zero")
      [] tok = <<"o", "n", "e">> -> Ok("One")
      [] OTHER -> Err([tag |-> "InvalidExpr", tok |-> tok])

\* <IntEvaluator as Display>::fmt
IntEvaluatorDisplay(ev) ==
    CASE ev = "Add" -> <<"+">>
      [] ev = "Sub" -> <<"-">>
      [] ev = "Mul" -> <<"*">>
      [] ev = "Div" -> <<"/">>
      [] ev = "Rem" -> <<"%">>
      [] ev = "Neg" -> <<"n", "e", "g">>
      [] ev = "Pow" -> <<"p", "o", "w">>
      [] ev = "Swap" -> <<"s", "w", "a", "p">>
      [] ev = "Zero" -> <<"z", "e", "r", "o">>
      [] ev = "One" -> <<"o", "n", "e">>

\* Faulty variant of operands_needed: Neg declares no operand, and pops one.
IntOperandsNeededNegZero(ev) ==
    CASE ev \in {"Add", "Sub", "Mul", "Div", "Pow", "Rem", "Swap"} -> 2
      [] ev \in {"Neg", "Zero", "One"} -> 0

\* <IntEvaluator as Evaluate>::operands_needed
IntOperandsNeeded(ev) ==
    CASE ev \in {"Add", "Sub", "Mul", "Div", "Pow", "Rem", "Swap"} -> 2
      [] ev = "Neg" -> 1
      [] ev \in {"Zero", "One"} -> 0

\* Faulty variant of operands_generated: Swap declares one result, and
\* pushes two.
IntOperandsGeneratedSwapOne(ev) == 1

\* <IntEvaluator as Evaluate>::operands_generated
IntOperandsGenerated(ev) ==
    CASE ev \in {"Add", "Sub", "Mul", "Div", "Rem", "Neg", "Pow", "Zero", "One"} -> 1
      [] ev = "Swap" -> 2

Abs(x) == IF x < 0 THEN -x ELSE x

\* integer division of the machine: the quotient is truncated towards zero
TruncDiv(a, b) ==
    IF (a < 0) = (b < 0) THEN Abs(a) \div Abs(b) ELSE -(Abs(a) \div Abs(b))

TruncRem(a, b) == a - b * TruncDiv(a, b)

\* Faulty variant of checked_add: wrapping_add, which never answers None.
CheckedAddWrapping(a, b) == Some(((a + b - I8Min) % (I8Max - I8Min + 1)) + I8Min)

CheckedAdd(a, b) == IF InI8(a + b) THEN Some(a + b) ELSE None
CheckedSub(a, b) == IF InI8(a - b) THEN Some(a - b) ELSE None
CheckedMul(a, b) == IF InI8(a * b) THEN Some(a * b) ELSE None
\* Faulty variant of checked_div: the divisor 0 is not refused and gives 0.
CheckedDivZeroDivisor(a, b) ==
    IF a = I8Min /\ b = -1 THEN None
    ELSE Some(IF b = 0 THEN 0 ELSE TruncDiv(a, b))

CheckedDiv(a, b) ==
    IF b = 0 \/ (a = I8Min /\ b = -1) THEN None ELSE Some(TruncDiv(a, b))

\* num::checked_pow: exponentiation by squaring on checked_mul.  First the
\* trailing zero bits of exp square the base.
RECURSIVE CheckedPowEven(_, _)
CheckedPowEven(base, exp) ==
    IF exp % 2 = 0
    THEN LET sq == CheckedMul(base, base)
         IN  IF sq.some THEN CheckedPowEven(sq.val, exp \div 2) ELSE None
    ELSE Some(<<base, exp>>)

\* num::checked_pow: the loop `while exp > 1` over the remaining bits
RECURSIVE CheckedPowLoop(_, _, _)
CheckedPowLoop(base, exp, acc) ==
    IF exp > 1
    THEN LET exp2 == exp \div 2
             sq == CheckedMul(base, base)
         IN  IF ~sq.some THEN None
             ELSE IF exp2 % 2 = 1
                  THEN LET m == CheckedMul(acc, sq.val)
                       IN  IF m.some THEN CheckedPowLoop(sq.val, exp2, m.val)
                           ELSE None
                  ELSE CheckedPowLoop(sq.val, exp2, acc)
    ELSE Some(acc)

CheckedPow(base, exp) ==
    IF exp = 0 THEN Some(1)
    ELSE LET e == CheckedPowEven(base, exp)
         IN  IF ~e.some THEN None
             ELSE IF e.val[2] = 1 THEN Some(e.val[1])
             ELSE CheckedPowLoop(e.val[1], e.val[2], e.val[1])

\* ToPrimitive::to_usize on an i8
ToUsize(b) == IF b >= 0 THEN Some(b) ELSE None

IntEvaluateErr(tag, args) == [tag |-> tag, args |-> args]

\* What an evaluator does once its operands are popped
Pushes(vals) == [kind |-> "push", vals |-> vals]
Fails(err) == [kind |-> "err", err |-> err]
Panics(why) == [kind |-> "panic", why |-> why]

\* IntEvaluator::evaluate, the operands it pops: pop_two_operands(stack)
\* .unwrap() for the binary variants, stack.pop().unwrap() for Neg, nothing
\* for Zero and One.  val is None where the unwrap meets None.
IntEvaluatePop(ev, s) ==
    CASE ev \in {"Add", "Sub", "Mul", "Div", "Rem", "Pow", "Swap"} ->
            PopTwoOperands(s)
      [] ev = "Neg" ->
            LET p == StackPop(s)
            IN  [val |-> IF p.val.some THEN Some(<<p.val.val>>) ELSE None,
                 stack |-> p.stack]
      [] ev \in {"Zero", "One"} -> [val |-> Some(<<>>), stack |-> s]

\* IntEvaluator::evaluate after the pops, as the set of outcomes the build
\* can produce.  `-a` on the minimum value panics in a build with overflow
\* checks and wraps to the minimum value in one without; `a % b` on the
\* minimum value and -1 panics in every build.
IntEvaluateApply(ev, ops) ==
    CASE ev = "Add" ->
            LET c == CheckedAdd(ops[1], ops[2])
            IN  {IF c.some THEN Pushes(<<c.val>>)
                 ELSE Fails(IntEvaluateErr("AddOverflow", ops))}
      [] ev = "Sub" ->
            LET c == CheckedSub(ops[1], ops[2])
            IN  {IF c.some THEN Pushes(<<c.val>>)
                 ELSE Fails(IntEvaluateErr("SubUnderflow", ops))}
      [] ev = "Mul" ->
            LET c == CheckedMul(ops[1], ops[2])
            IN  {IF c.some THEN Pushes(<<c.val>>)
                 ELSE Fails(IntEvaluateErr("MulOverflow", ops))}
      [] ev = "Div" ->
            LET c == CheckedDiv(ops[1], ops[2])
            IN  {IF c.some THEN Pushes(<<c.val>>)
                 ELSE Fails(IntEvaluateErr("InvalidDiv", ops))}
      [] ev = "Rem" ->
            IF ops[2] = 0 THEN {Fails(IntEvaluateErr("InvalidRem", ops))}
            ELSE IF ops[1] = I8Min /\ ops[2] = -1 THEN {Panics("overflow")}
            ELSE {Pushes(<<TruncRem(ops[1], ops[2])>>)}
      [] ev = "Neg" ->
            IF ops[1] = I8Min THEN {Panics("overflow"), Pushes(<<I8Min>>)}
            ELSE {Pushes(<<-ops[1]>>)}
      [] ev = "Pow" ->
            LET b == ToUsize(ops[2])
            IN  IF ~b.some
                THEN {Fails(IntEvaluateErr("ConvertToU32", <<ops[2]>>))}
                ELSE LET pow == CheckedPow(ops[1], b.val)
                     IN  {IF pow.some THEN Pushes(<<pow.val>>)
                          ELSE Fails(IntEvaluateErr("PowOverflow", ops))}
      [] ev = "Swap" -> {Pushes(<<ops[2], ops[1]>>)}
      [] ev = "Zero" -> {Pushes(<<0>>)}
      [] ev = "One" -> {Pushes(<<1>>)}

-----------------------------------------------------------------------------
(* f32 and FloatEvaluator<f32> *)

\* a float given by a decimal: (-1)^neg * mant * 10^exp, mant without
\* trailing zeros
F32(neg, mant, exp) == [neg |-> neg, mant |-> mant, exp |-> exp]

\* a float produced by an operation
F32Term(op, args) == [op |-> op, args |-> args]

RECURSIVE NormalizeDecimal(_, _, _)
NormalizeDecimal(neg, mant, exp) ==
    IF mant = 0 THEN F32(neg, 0, 0)
    ELSE IF mant % 10 = 0 THEN NormalizeDecimal(neg, mant \div 10, exp + 1)
    ELSE F32(neg, mant, exp)

\* the digits of a decimal from position i: the mantissa so far, the number
\* of digits read, the number of digits read after the point
RECURSIVE DecimalDigits(_, _, _, _, _, _)
DecimalDigits(s, i, mant, ndigits, nfrac, seen_point) ==
    IF i > Len(s)
    THEN IF ndigits = 0 THEN Err("Invalid")
         ELSE Ok([mant |-> mant, nfrac |-> nfrac])
    ELSE IF s[i] = "."
         THEN IF seen_point THEN Err("Invalid")
              ELSE DecimalDigits(s, i + 1, mant, ndigits, nfrac, TRUE)
    ELSE IF s[i] \in Digits
         THEN DecimalDigits(s, i + 1, mant * 10 + DigitVal(s[i]), ndigits + 1,
                            IF seen_point THEN nfrac + 1 ELSE nfrac, seen_point)
    ELSE Err("Invalid")

\* <f32 as FromStr>::from_str on a decimal without exponent: an optional
\* sign, digits, at most one point, one digit at least.  No raw token of
\* the model spells an exponent, an infinity or a NaN.
F32FromStr(s) ==
    IF s = <<>> THEN Err("Empty")
    ELSE LET signed == s[1] \in {"+", "-"}
             d == DecimalDigits(IF signed THEN Tail2(s) ELSE s, 1, 0, 0, 0, FALSE)
         IN  IF d.ok
             THEN Ok(NormalizeDecimal(s[1] = "-", d.val.mant, -d.val.nfrac))
             ELSE d

\* implement_try_from_ref!(f32 ...): FromStr::from_str
F32TryFromRef(s) ==
    LET n == F32FromStr(s)
    IN  IF n.ok THEN n ELSE Err([tag |-> "ParseFloatError", kind |-> n.err])

Zeros(k) == [i \in 1..k |-> "0"]

\* <f32 as Display>::fmt on a float parsed from a decimal of a few digits:
\* the shortest decimal that parses back to the float, which is that
\* decimal without its trailing zeros, written without exponent and with a
\* point only before a fractional part; the sign is kept, on a zero too
F32Display(x) ==
    LET ds == NatDigits(x.mant)
        k == -x.exp
        body == IF x.exp >= 0 THEN ds \o Zeros(IF x.mant = 0 THEN 0 ELSE x.exp)
                ELSE IF Len(ds) > k
                     THEN SubSeq(ds, 1, Len(ds) - k) \o <<".">>
                              \o SubSeq(ds, Len(ds) - k + 1, Len(ds))
                     ELSE <<"0", ".">> \o Zeros(k - Len(ds)) \o ds
    IN  IF x.neg THEN <<"-">> \o body ELSE body

FloatEvaluator ==
    {"Add", "Sub", "Mul", "Div", "Rem", "Neg", "Sqrt", "Pow", "Log2", "Exp",
     "Swap", "Zero", "One", "Round"}

\* <FloatEvaluator as TryFromRef<&str>>::try_from_ref
FloatEvaluatorTryFromRef(tok) ==
    CASE tok = <<"+">> -> Ok("Add")
      [] tok = <<"-">> -> Ok("Sub")
      [] tok = <<"*">> -> Ok("Mul")
      [] tok = <<"/">> -> Ok("Div")
      [] tok = <<"%">> -> Ok("Rem")
      [] tok = <<"n", "e", "g">> -> Ok("Neg")
      [] tok = <<"s", "q", "r", "t">> -> Ok("Sqrt")
      [] tok = <<"p", "o", "w">> -> Ok("Pow")
      [] tok = <<"l", "o", "g", "2">> -> Ok("Log2")
      [] tok = <<"e", "x", "p">> -> Ok("Exp")
      [] tok = <<"s", "w", "a", "p">> -> Ok("Swap")
      [] tok = <<"z", "e", "r", "o">> -> Ok("Zero")
      [] tok = <<"o", "n", "e">> -> Ok("One")
      [] tok = <<"r", "o", "u", "n", "d">> -> Ok("Round")
      [] OTHER -> Err([tag |-> "InvalidExpr", tok |-> tok])

\* <FloatEvaluator as Display>::fmt
FloatEvaluatorDisplay(ev) ==
    CASE ev = "Add" -> <<"+">>
      [] ev = "Sub" -> <<"-">>
      [] ev = "Mul" -> <<"*">>
      [] ev = "Div" -> <<"/">>
      [] ev = "Rem" -> <<"%">>
      [] ev = "Neg" -> <<"n", "e", "g">>
      [] ev = "Sqrt" -> <<"s", "q", "r", "t">>
      [] ev = "Pow" -> <<"p", "o", "w">>
      [] ev = "Log2" -> <<"l", "o", "g", "2">>
      [] ev = "Exp" -> <<"e", "x", "p">>
      [] ev = "Swap" -> <<"s", "w", "a", "p">>
      [] ev = "Zero" -> <<"z", "e", "r", "o">>
      [] ev = "One" -> <<"o", "n", "e">>
      [] ev = "Round" -> <<"r", "o", "u", "n", "d">>

\* Faulty variant of operands_needed: Exp is listed with the binary
\* variants, beside Pow.
FloatOperandsNeededExpTwo(ev) ==
    CASE ev \in {"Add", "Sub", "Mul", "Div", "Pow", "Exp", "Rem", "Swap"} -> 2
      [] ev \in {"Neg", "Sqrt", "Log2", "Round"} -> 1
      [] ev \in {"Zero", "One"} -> 0

\* <FloatEvaluator as Evaluate>::operands_needed
FloatOperandsNeeded(ev) ==
    CASE ev \in {"Add", "Sub", "Mul", "Div", "Pow", "Rem", "Swap"} -> 2
      [] ev \in {"Neg", "Sqrt", "Log2", "Round", "Exp"} -> 1
      [] ev \in {"Zero", "One"} -> 0

\* <FloatEvaluator as Evaluate>::operands_generated
FloatOperandsGenerated(ev) ==
    CASE ev \in {"Add", "Sub", "Mul", "Div", "Rem", "Neg", "Sqrt", "Pow",
                 "Log2", "Exp", "Zero", "One", "Round"} -> 1
      [] ev = "Swap" -> 2

\* FloatEvaluator::evaluate, the operands it pops
FloatEvaluatePop(ev, s) ==
    CASE ev \in {"Add", "Sub", "Mul", "Div", "Rem", "Pow", "Swap"} ->
            PopTwoOperands(s)
      [] ev \in {"Neg", "Sqrt", "Log2", "Exp", "Round"} ->
            LET p == StackPop(s)
            IN  [val |-> IF p.val.some THEN Some(<<p.val.val>>) ELSE None,
                 stack |-> p.stack]
      [] ev \in {"Zero", "One"} -> [val |-> Some(<<>>), stack |-> s]

\* Faulty variant of FloatEvaluator::evaluate: Swap pushes a before b, as
\* they were.
FloatEvaluateApplySwapKeeps(ev, ops) ==
    CASE ev \in {"Add", "Sub", "Mul", "Div", "Rem", "Pow"} ->
            {Pushes(<<F32Term(ev, <<ops[1], ops[2]>>)>>)}
      [] ev \in {"Neg", "Sqrt", "Log2", "Exp", "Round"} ->
            {Pushes(<<F32Term(ev, <<ops[1]>>)>>)}
      [] ev = "Swap" -> {Pushes(<<ops[1], ops[2]>>)}
      [] ev = "Zero" -> {Pushes(<<F32(FALSE, 0, 0)>>)}
      [] ev = "One" -> {Pushes(<<F32(FALSE, 1, 0)>>)}

\* FloatEvaluator::evaluate after the pops: every variant pushes, none
\* fails
FloatEvaluateApply(ev, ops) ==
    CASE ev \in {"Add", "Sub", "Mul", "Div", "Rem", "Pow"} ->
            {Pushes(<<F32Term(ev, <<ops[1], ops[2]>>)>>)}
      [] ev \in {"Neg", "Sqrt", "Log2", "Exp", "Round"} ->
            {Pushes(<<F32Term(ev, <<ops[1]>>)>>)}
      [] ev = "Swap" -> {Pushes(<<ops[2], ops[1]>>)}
      [] ev = "Zero" -> {Pushes(<<F32(FALSE, 0, 0)>>)}
      [] ev = "One" -> {Pushes(<<F32(FALSE, 1, 0)>>)}

-----------------------------------------------------------------------------
(* Variable types and variable containers *)

\* Faulty variant of the conversion: it always succeeds.
DummyVariableTryFromRefOk(tok) == Ok([tag |-> "DummyVariable"])

\* <DummyVariable as TryFromRef<T>>::try_from_ref: always Err(())
DummyVariableTryFromRef(tok) == Err([tag |-> "Unit"])

\* <VarIdx as TryFromRef<&str>>::try_from_ref: a '$' and an index
VarIdxTryFromRef(s) ==
    IF Len(s) > 0 /\ s[1] = "$"
    THEN LET n == UsizeFromStr(Tail2(s))
         IN  IF n.ok THEN Ok(n.val)
             ELSE Err([tag |-> "ConvertErr", err |-> n.err])
    ELSE Err([tag |-> "InvalidVariableName", tok |-> s])

\* implement_try_from_ref!(... i8 ...): FromStr::from_str
I8TryFromRef(s) ==
    LET n == I8FromStr(s)
    IN  IF n.ok THEN n ELSE Err([tag |-> "ParseIntError", kind |-> n.err])

\* Faulty variant of get_variable on a Vec: nth counts from the second
\* element.
VecGetVariableSkipFirst(container, index) ==
    IF index + 1 < Len(container) THEN Some(container[index + 2]) ELSE None

\* <Vec<T> as GetVariable<usize>>::get_variable: self.iter().nth(index)
VecGetVariable(container, index) ==
    IF index < Len(container) THEN Some(container[index + 1]) ELSE None

\* <BTreeMap<I, T> as GetVariable<I>>::get_variable: self.get(&index)
BTreeMapGetVariable(container, index) ==
    IF index \in DOMAIN container THEN Some(container[index]) ELSE None

-----------------------------------------------------------------------------
(* The type parameters <T, V, E> of an Expression *)

Families == {"IntExpr", "VariableIntExpr", "KeyedIntExpr", "VariableFloatExpr"}

IsFloat(fam) == fam \in {"VariableFloatExpr", "FloatExpr"}

\* TryIntoRef::<E>::try_into_ref(&token)
EvaluatorTryIntoRef(fam, token) ==
    IF IsFloat(fam) THEN FloatEvaluatorTryFromRef(token)
    ELSE IntEvaluatorTryFromRef(token)

\* TryIntoRef::<V>::try_into_ref(&token)
VariableTryIntoRef(fam, token) ==
    CASE fam = "IntExpr" -> DummyVariableTryFromRef(token)
      [] fam = "VariableIntExpr" -> VarIdxTryFromRef(token)
      [] fam = "KeyedIntExpr" -> I8TryFromRef(token)
      [] fam = "VariableFloatExpr" -> VarIdxTryFromRef(token)
      [] fam = "FloatExpr" -> DummyVariableTryFromRef(token)

\* TryIntoRef::<T>::try_into_ref(&token)
OperandTryIntoRef(fam, token) ==
    IF IsFloat(fam) THEN F32TryFromRef(token) ELSE I8TryFromRef(token)

\* variables.get_variable(var.into()).  The DummyVariables container of
\* evaluate() holds nothing.
GetVariable(fam, container, var) ==
    CASE fam = "IntExpr" -> None
      [] fam = "VariableIntExpr" -> VecGetVariable(container, var)
      [] fam = "KeyedIntExpr" -> BTreeMapGetVariable(container, var)
      [] fam = "VariableFloatExpr" -> VecGetVariable(container, var)
      [] fam = "FloatExpr" -> None

\* evaluator.operands_needed()
OperandsNeeded(fam, ev) ==
    IF IsFloat(fam) THEN FloatOperandsNeeded(ev) ELSE IntOperandsNeeded(ev)

\* evaluator.operands_generated()
OperandsGenerated(fam, ev) ==
    IF IsFloat(fam) THEN FloatOperandsGenerated(ev) ELSE IntOperandsGenerated(ev)

\* evaluator.evaluate(&mut stack), the pops
EvaluatePop(fam, ev, s) ==
    IF IsFloat(fam) THEN FloatEvaluatePop(ev, s) ELSE IntEvaluatePop(ev, s)

\* evaluator.evaluate(&mut stack), after the pops
EvaluateApply(fam, ev, ops) ==
    IF IsFloat(fam) THEN FloatEvaluateApply(ev, ops) ELSE IntEvaluateApply(ev, ops)

\* evaluator.evaluate(&mut stack) as one call: the result (Ok(()), an Err
\* or a panic) and the stack it leaves, for each outcome the build can
\* produce
EvaluatorEvaluate(fam, ev, s) ==
    LET popped == EvaluatePop(fam, ev, s)
    IN  IF ~popped.val.some
        THEN {[res |-> [tag |-> "Panic", why |-> "unwrap on None"],
               stack |-> popped.stack]}
        ELSE {CASE o.kind = "push" ->
                      [res |-> [tag |-> "Ok"], stack |-> popped.stack \o o.vals]
                [] o.kind = "err" ->
                      [res |-> [tag |-> "Err", err |-> o.err],
                       stack |-> popped.stack]
                [] o.kind = "panic" ->
                      [res |-> [tag |-> "Panic", why |-> o.why],
                       stack |-> popped.stack]
              : o \in EvaluateApply(fam, ev, popped.val.val)}

-----------------------------------------------------------------------------
(* Arithm<T, V, E> and the construction of an Expression *)

Operand(t) == [kind |-> "Operand", val |-> t]
Variable(v) == [kind |-> "Variable", var |-> v]
Evaluator(e) == [kind |-> "Evaluator", ev |-> e]

InvalidToken(eval_err, var_err, op_err) ==
    [tag |-> "InvalidToken", evaluator |-> eval_err, variable |-> var_err,
     operand |-> op_err]

OperandErr(err) == [tag |-> "OperandErr", err |-> err]

\* Faulty variant of the closure: the operand conversion is tried before
\* the variable conversion.
ClassifyTokenOperandFirst(fam, token) ==
    LET eval == EvaluatorTryIntoRef(fam, token)
        var == VariableTryIntoRef(fam, token)
        op == OperandTryIntoRef(fam, token)
    IN  IF eval.ok THEN Ok(Evaluator(eval.val))
        ELSE IF op.ok THEN Ok(Operand(op.val))
        ELSE IF var.ok THEN Ok(Variable(var.val))
        ELSE Err(InvalidToken(eval.err, var.err, op.err))

\* Faulty variant of the closure: InvalidToken carries the last failure
\* only.
ClassifyTokenLastFailure(fam, token) ==
    LET eval == EvaluatorTryIntoRef(fam, token)
        var == VariableTryIntoRef(fam, token)
        op == OperandTryIntoRef(fam, token)
    IN  IF eval.ok THEN Ok(Evaluator(eval.val))
        ELSE IF var.ok THEN Ok(Variable(var.val))
        ELSE IF op.ok THEN Ok(Operand(op.val))
        ELSE Err(InvalidToken(op.err, op.err, op.err))

\* from_iter, the closure given to map: the evaluator conversion first, the
\* variable conversion when it fails, the operand conversion when both fail
ClassifyToken(fam, token) ==
    LET eval == EvaluatorTryIntoRef(fam, token)
        var == VariableTryIntoRef(fam, token)
        op == OperandTryIntoRef(fam, token)
    IN  IF eval.ok THEN Ok(Evaluator(eval.val))
        ELSE IF var.ok THEN Ok(Variable(var.val))
        ELSE IF op.ok THEN Ok(Operand(op.val))
        ELSE Err(InvalidToken(eval.err, var.err, op.err))

\* Faulty variant of the loop: a saturating subtraction in place of
\* checked_sub, so a missing operand is never reported.
RECURSIVE CheckValidityLoopSaturating(_, _, _, _)
CheckValidityLoopSaturating(fam, e, i, num_operands) ==
    IF i > Len(e) THEN Ok(num_operands)
    ELSE IF e[i].kind \in {"Operand", "Variable"}
         THEN CheckValidityLoopSaturating(fam, e, i + 1, num_operands + 1)
    ELSE LET needed == OperandsNeeded(fam, e[i].ev)
             left == IF num_operands < needed THEN 0 ELSE num_operands - needed
         IN  CheckValidityLoopSaturating(fam, e, i + 1,
                 left + OperandsGenerated(fam, e[i].ev))

\* check_validity, the loop over expr from token i with the count so far
RECURSIVE CheckValidityLoop(_, _, _, _)
CheckValidityLoop(fam, e, i, num_operands) ==
    IF i > Len(e) THEN Ok(num_operands)
    ELSE IF e[i].kind \in {"Operand", "Variable"}
         THEN CheckValidityLoop(fam, e, i + 1, num_operands + 1)
    ELSE LET needed == OperandsNeeded(fam, e[i].ev)
         IN  IF num_operands < needed THEN Err("NotEnoughOperand")
             ELSE CheckValidityLoop(fam, e, i + 1,
                      (num_operands - needed) + OperandsGenerated(fam, e[i].ev))

\* Faulty variant of check_validity: any final count above 0 is accepted.
CheckValidityNoTooMany(fam, e) ==
    LET scan == CheckValidityLoop(fam, e, 1, 0)
    IN  IF ~scan.ok THEN scan
        ELSE IF scan.val = 0 THEN Err("NotEnoughOperand")
        ELSE Ok(<<>>)

\* Faulty variant of check_validity: a final count of 0 is accepted, and
\* with it the empty sequence.
CheckValidityZeroOk(fam, e) ==
    LET scan == CheckValidityLoop(fam, e, 1, 0)
    IN  IF ~scan.ok THEN scan
        ELSE IF scan.val <= 1 THEN Ok(<<>>)
        ELSE Err("TooManyOperands")

\* check_validity
CheckValidity(fam, e) ==
    LET scan == CheckValidityLoop(fam, e, 1, 0)
    IN  IF ~scan.ok THEN scan
        ELSE IF scan.val = 0 THEN Err("NotEnoughOperand")
        ELSE IF scan.val = 1 THEN Ok(<<>>)
        ELSE Err("TooManyOperands")

\* Faulty variant of the closure: a Variable is not counted.
StackCountNoVariable(fam, arithm) ==
    IF arithm.kind = "Operand" THEN 1
    ELSE IF arithm.kind = "Variable" THEN 0
    ELSE OperandsGenerated(fam, arithm.ev) - OperandsNeeded(fam, arithm.ev)

\* compute_stack_max, the closure given to map: the signed effect of a token
StackCount(fam, arithm) ==
    IF arithm.kind \in {"Operand", "Variable"} THEN 1
    ELSE OperandsGenerated(fam, arithm.ev) - OperandsNeeded(fam, arithm.ev)

\* `as usize` and `as isize` reinterpret the same bits, so a usize is kept
\* here as the isize of its bits and `acc > max` compares as unsigned: a
\* value with the sign bit set is above every value without it.
UsizeGt(x, y) ==
    IF (x < 0) = (y < 0) THEN x > y ELSE x < 0

\* compute_stack_max, the fold from token i with the pair (max, acc_count)
RECURSIVE StackMaxFold(_, _, _, _, _)
StackMaxFold(fam, e, i, max, acc_count) ==
    IF i > Len(e) THEN max
    ELSE LET acc == acc_count + StackCount(fam, e[i])
         IN  IF UsizeGt(acc, max) THEN StackMaxFold(fam, e, i + 1, acc, acc)
             ELSE StackMaxFold(fam, e, i + 1, max, acc)

\* Faulty variant of compute_stack_max: the count after the last token, not
\* the largest one.
RECURSIVE StackFinalFold(_, _, _, _)
StackFinalFold(fam, e, i, acc_count) ==
    IF i > Len(e) THEN acc_count
    ELSE StackFinalFold(fam, e, i + 1, acc_count + StackCount(fam, e[i]))

ComputeStackMaxFinal(fam, e) == StackFinalFold(fam, e, 1, 0)

\* compute_stack_max
ComputeStackMax(fam, e) == StackMaxFold(fam, e, 1, 0, 0)

\* <T as Display>::fmt, <V as Display>::fmt and <E as Display>::fmt.
\* DummyVariable answers Err(fmt::Error); VarIdx has no Display, so an
\* Expression over VarIdx has none either.
OperandDisplay(fam, t) ==
    Ok(IF IsFloat(fam) THEN F32Display(t) ELSE I8Display(t))

VariableDisplay(fam, v) ==
    IF fam = "KeyedIntExpr" THEN Ok(I8Display(v)) ELSE Err("fmt::Error")

EvaluatorDisplay(fam, ev) ==
    Ok(IF IsFloat(fam) THEN FloatEvaluatorDisplay(ev) ELSE IntEvaluatorDisplay(ev))

ArithmDisplay(fam, arithm) ==
    CASE arithm.kind = "Operand" -> OperandDisplay(fam, arithm.val)
      [] arithm.kind = "Variable" -> VariableDisplay(fam, arithm.var)
      [] arithm.kind = "Evaluator" -> EvaluatorDisplay(fam, arithm.ev)

\* Faulty variant of the loop: a space is written after every token, the
\* last one included.
RECURSIVE ExpressionFmtTrailingSpace(_, _, _, _)
ExpressionFmtTrailingSpace(fam, e, i, out) ==
    IF i > Len(e) THEN Ok(out)
    ELSE LET piece == ArithmDisplay(fam, e[i])
         IN  IF ~piece.ok THEN piece
             ELSE ExpressionFmtTrailingSpace(fam, e, i + 1,
                      out \o piece.val \o <<" ">>)

\* <Expression as Display>::fmt, the loop from token i with the text
\* written so far: the token, then a space unless it is the last one
RECURSIVE ExpressionFmt(_, _, _, _)
ExpressionFmt(fam, e, i, out) ==
    IF i > Len(e) THEN Ok(out)
    ELSE LET piece == ArithmDisplay(fam, e[i])
         IN  IF ~piece.ok THEN piece
             ELSE ExpressionFmt(fam, e, i + 1,
                      out \o piece.val \o (IF i # Len(e) THEN <<" ">> ELSE <<>>))

\* ToString::to_string: the text Display writes; it panics when fmt
\* answers an Err
ExpressionToString(fam, e) ==
    LET text == ExpressionFmt(fam, e, 1, <<>>)
    IN  IF text.ok THEN [tag |-> "Ok", val |-> text.val]
        ELSE [tag |-> "Panic", why |-> "Display returned an error"]

-----------------------------------------------------------------------------
(* Raw tokens *)

tAdd == <<"+">>
tSub == <<"-">>
tMul == <<"*">>
tDiv == <<"/">>
tRem == <<"%">>
tNeg == <<"n", "e", "g">>
tPow == <<"p", "o", "w">>
tSwap == <<"s", "w", "a", "p">>
tZero == <<"z", "e", "r", "o">>
tOne == <<"o", "n", "e">>
tSqrt == <<"s", "q", "r", "t">>
tLog2 == <<"l", "o", "g", "2">>
tExp == <<"e", "x", "p">>
tRound == <<"r", "o", "u", "n", "d">>
tAmp == <<"&">>
tVar0 == <<"$", "0">>

\* The tokens the iterator draws from: evaluators of every arity (Zero
\* also supplies the operand 0), operands (for i8 a small value and the
\* minimum, for f32 two spellings of one value), a variable, and a token no
\* conversion accepts.
RawTokens(fam) ==
    IF IsFloat(fam)
    THEN {tAdd, tDiv, tSqrt, tSwap, tZero,
          <<"3">>, <<"3", ".", "0">>, tVar0, tAmp}
    ELSE {tAdd, tDiv, tNeg, tSwap, tZero,
          <<"3">>, <<"-", "1", "2", "8">>, tVar0, tAmp}

\* The expressions of the tests and of the crate documentation, as
\* split_whitespace yields them.
TestInputs ==
    {<<<<"3">>, <<"4">>, tAdd, tAmp>>,                \* bad_operator
     <<<<"3">>, <<"3">>, <<"4">>, tAdd>>,             \* too_many_operands
     <<<<"4">>, tAdd>>,                               \* not_enough_operand
     <<<<"3">>, <<"4">>, tAdd>>,                      \* simple_addition
     <<<<"1", "2", "5">>, <<"2", "0">>, tAdd>>,       \* overflowing_addition
     <<<<"4">>, <<"3">>, tSub>>,                      \* simple_substraction
     <<<<"-", "1", "2", "0">>, <<"3", "0">>, tSub>>,  \* underflowing_substraction
     <<<<"3">>, <<"4">>, tMul>>,                      \* simple_multiplication
     <<<<"3", "0">>, <<"2", "0">>, tMul>>,            \* overflowing_multiplication
     <<<<"9">>, <<"3">>, tDiv>>,                      \* simple_division
     <<<<"9">>, <<"0">>, tDiv>>,                      \* invalid_division
     <<<<"9">>, <<"3">>, tRem>>,                      \* simple_remaining
     <<<<"9">>, <<"0">>, tRem>>,                      \* invalid_remaining
     <<<<"9">>, tNeg>>,                               \* simple_negation
     <<<<"3">>, <<"4">>, tPow>>,                      \* simple_power
     <<<<"3">>, <<"1", "0">>, tPow>>,                 \* overflowing_power
     <<<<"3">>, <<"-", "1", "0">>, tPow>>,            \* invalid_exp_power
     <<<<"2">>, <<"4">>, tSwap, tDiv>>,               \* simple_swap
     <<tZero>>,                                       \* simple_zero
     <<tOne>>,                                        \* simple_one
     <<<<"3">>, <<"3">>, tAdd, tNeg, tNeg, <<"4">>, tAdd>>,  \* to_string
     <<<<"3">>, <<"4">>, tAdd, tVar0, tSub>>,         \* simple_variable_expression
     <<<<"0">>, <<"0">>, tDiv>>,                      \* simple_nan
     <<<<"9">>, tSqrt>>,                              \* simple_square_root
     <<<<"4">>, tLog2>>,                              \* simple_logarithm_2
     <<<<"0">>, tExp>>,                               \* simple_exponential
     <<<<"3", ".", "3">>, tRound>>,                   \* simple_round
     <<<<"3", ".", "3">>, <<"3">>, tAdd, tRound, tNeg, <<"4">>, tAdd>>,  \* to_string
     <<<<"3">>, <<"4">>, tAdd, <<"2">>, tMul>>,       \* lib.rs
     <<<<"3">>, <<"4">>, tAdd, <<"2">>, tMul, tVar0, tSub>>}  \* lib.rs

\* Longer expressions: three values on the stack, Swap below the peak and
\* at the peak, a variable and a failing evaluator in both orders; operands
\* spelled with a sign and with a leading zero.
DeepInputs ==
    {<<<<"3">>, <<"3">>, <<"3">>, tAdd, tAdd>>,
     <<<<"3">>, <<"3">>, <<"3">>, tSwap, tAdd, tAdd>>,
     <<<<"3">>, <<"3">>, tSwap, <<"3">>, tAdd, tAdd>>,
     <<<<"3">>, tVar0, <<"3">>, tDiv, tAdd>>,
     <<<<"3">>, tZero, tDiv, tVar0, tAdd>>,
     <<tVar0, <<"3">>, tZero, tDiv, tAdd>>,
     <<<<"+", "3">>, <<"0", "4">>, tAdd>>}

IsPrefix(p, s) == Len(p) <= Len(s) /\ SubSeq(s, 1, Len(p)) = p

\* what the iterator may yield after the tokens `sofar`
NextTokens(fam, sofar) ==
    (IF Len(sofar) < MaxLen THEN RawTokens(fam) ELSE {})
    \cup {s[Len(sofar) + 1] : s \in {t \in TestInputs \cup DeepInputs :
                                     Len(t) > Len(sofar) /\ IsPrefix(sofar, t)}}

\* The containers evaluate_with_variables is called with: the
\* DummyVariables of evaluate(), vectors for VarIdx, maps for i8 keys.
Containers(fam) ==
    CASE fam = "IntExpr" -> {<<>>}
      [] fam = "VariableIntExpr" -> {<<>>, <<3, 50>>}
      [] fam = "KeyedIntExpr" -> {(3 :> 4)}
      [] fam = "VariableFloatExpr" -> {<<>>, <<F32(FALSE, 3, 0), F32(FALSE, 5, 2)>>}
      [] fam = "FloatExpr" -> {<<>>}

-----------------------------------------------------------------------------
(* The state machine *)

NoResult == [tag |-> "None"]

\* no second call is running
IdleCall ==
    [pc |-> "idle", variables |-> <<>>, stack |-> <<>>, ip |-> 0,
     outcome |-> NoResult]

Init ==
    /\ concurrent = IdleCall
    /\ rendered = NoResult
    /\ family \in Families
    /\ input = <<>>
    /\ final_expr = <<>>
    /\ result = NoResult
    /\ max_stack = 0
    /\ expr = <<>>
    /\ pc = "from_iter"
    /\ variables = <<>>
    /\ stack = <<>>
    /\ ip = 0
    /\ locals = <<>>
    /\ outcome = NoResult

\* Faulty variant of the step: the arity of the tokens is checked as they
\* come, so a missing operand is reported before the next token is read.
FromIterNextEagerArity(token) ==
    /\ pc = "from_iter"
    /\ token \in NextTokens(family, input)
    /\ input' = Append(input, token)
    /\ LET arithm == ClassifyToken(family, token)
       IN  IF ~arithm.ok
           THEN /\ result' = arithm.err
                /\ pc' = "returned_err"
                /\ UNCHANGED final_expr
           ELSE IF ~CheckValidityLoop(family, Append(final_expr, arithm.val), 1, 0).ok
           THEN /\ result' = OperandErr("NotEnoughOperand")
                /\ pc' = "returned_err"
                /\ UNCHANGED final_expr
           ELSE /\ final_expr' = Append(final_expr, arithm.val)
                /\ UNCHANGED <<result, pc>>
    /\ UNCHANGED <<concurrent, rendered, family, max_stack, expr, variables, stack, ip, locals, outcome>>

\* from_iter: the iterator yields a token and the closure classifies it.
\* collect() keeps an Ok and returns from_iter's Err at the first failure.
FromIterNext(token) ==
    /\ pc = "from_iter"
    /\ token \in NextTokens(family, input)
    /\ input' = Append(input, token)
    /\ LET arithm == ClassifyToken(family, token)
       IN  IF arithm.ok
           THEN /\ final_expr' = Append(final_expr, arithm.val)
                /\ UNCHANGED <<result, pc>>
           ELSE /\ result' = arithm.err
                /\ pc' = "returned_err"
                /\ UNCHANGED final_expr
    /\ UNCHANGED <<concurrent, rendered, family, max_stack, expr, variables, stack, ip, locals, outcome>>

\* Faulty variant of the step: the Expression is built whatever
\* check_validity answers.
FromIterEndUnchecked ==
    /\ pc = "from_iter"
    /\ max_stack' = ComputeStackMax(family, final_expr)
    /\ expr' = final_expr
    /\ result' = [tag |-> "Ok"]
    /\ pc' = "expression"
    /\ UNCHANGED <<concurrent, rendered, family, input, final_expr, variables, stack, ip, locals, outcome>>

\* from_iter: the iterator is exhausted; and_then runs check_validity and,
\* on Ok, builds the Expression with compute_stack_max.
FromIterEnd ==
    /\ pc = "from_iter"
    /\ IF CheckValidity(family, final_expr).ok
       THEN /\ max_stack' = ComputeStackMax(family, final_expr)
            /\ expr' = final_expr
            /\ result' = [tag |-> "Ok"]
            /\ pc' = "expression"
       ELSE /\ result' = OperandErr(CheckValidity(family, final_expr).err)
            /\ pc' = "returned_err"
            /\ UNCHANGED <<max_stack, expr>>
    /\ UNCHANGED <<concurrent, rendered, family, input, final_expr, variables, stack, ip, locals, outcome>>

\* Faulty variant of the step: every variable of the Expression is looked
\* up at the entry, before the first token.
EvaluateCallResolveFirst(container) ==
    /\ pc = "expression"
    /\ variables' = container
    /\ stack' = StackNew
    /\ ip' = 1
    /\ IF \A k \in 1..Len(expr) :
              expr[k].kind = "Variable"
                => GetVariable(family, container, expr[k].var).some
       THEN /\ pc' = "evaluate"
            /\ UNCHANGED outcome
       ELSE /\ outcome' = [tag |-> "Panic", why |-> "Variable not found"]
            /\ pc' = "finished"
    /\ UNCHANGED <<concurrent, rendered, family, input, final_expr, result, max_stack, expr, locals>>

\* evaluate_with_variables is entered: Stack::with_capacity(self.max_stack)
EvaluateCall(container) ==
    /\ pc = "expression"
    /\ variables' = container
    /\ stack' = StackNew
    /\ ip' = 1
    /\ pc' = "evaluate"
    /\ UNCHANGED <<concurrent, rendered, family, input, final_expr, result, max_stack, expr, locals, outcome>>

Finish(how) ==
    /\ outcome' = how
    /\ pc' = "finished"

\* Arithm::Operand(operand) => stack.push(operand)
EvalOperand ==
    /\ pc = "evaluate"
    /\ ip <= Len(expr)
    /\ expr[ip].kind = "Operand"
    /\ stack' = StackPush(stack, expr[ip].val)
    /\ ip' = ip + 1
    /\ UNCHANGED <<concurrent, rendered, family, input, final_expr, result, max_stack, expr, pc,
                   variables, locals, outcome>>

\* Faulty variant of the step: the value is taken out of the container
\* (remove in place of a lookup).
EvalVariableTake ==
    /\ pc = "evaluate"
    /\ ip <= Len(expr)
    /\ expr[ip].kind = "Variable"
    /\ LET var == GetVariable(family, variables, expr[ip].var)
       IN  IF var.some
           THEN /\ stack' = StackPush(stack, var.val)
                /\ ip' = ip + 1
                /\ variables' =
                      IF family = "KeyedIntExpr"
                      THEN [k \in DOMAIN variables \ {expr[ip].var} |-> variables[k]]
                      ELSE SubSeq(variables, 1, expr[ip].var)
                             \o SubSeq(variables, expr[ip].var + 2, Len(variables))
                /\ UNCHANGED <<pc, outcome>>
           ELSE /\ Finish([tag |-> "Panic", why |-> "Variable not found"])
                /\ UNCHANGED <<stack, ip, variables>>
    /\ UNCHANGED <<concurrent, rendered, family, input, final_expr, result, max_stack, expr, locals>>

\* Faulty variant of the step: a missing variable is returned as an Err.
EvalVariableErr ==
    /\ pc = "evaluate"
    /\ ip <= Len(expr)
    /\ expr[ip].kind = "Variable"
    /\ LET var == GetVariable(family, variables, expr[ip].var)
       IN  IF var.some
           THEN /\ stack' = StackPush(stack, var.val)
                /\ ip' = ip + 1
                /\ UNCHANGED <<pc, outcome>>
           ELSE /\ Finish([tag |-> "Err", err |-> "VariableNotFound"])
                /\ UNCHANGED <<stack, ip>>
    /\ UNCHANGED <<concurrent, rendered, family, input, final_expr, result, max_stack, expr,
                   variables, locals>>

\* Arithm::Variable(var) => get_variable(..).expect(..), then stack.push(*var)
EvalVariable ==
    /\ pc = "evaluate"
    /\ ip <= Len(expr)
    /\ expr[ip].kind = "Variable"
    /\ LET var == GetVariable(family, variables, expr[ip].var)
       IN  IF var.some
           THEN /\ stack' = StackPush(stack, var.val)
                /\ ip' = ip + 1
                /\ UNCHANGED <<pc, outcome>>
           ELSE /\ Finish([tag |-> "Panic", why |-> "Variable not found"])
                /\ UNCHANGED <<stack, ip>>
    /\ UNCHANGED <<concurrent, rendered, family, input, final_expr, result, max_stack, expr,
                   variables, locals>>

\* Arithm::Evaluator(evaluator) => evaluator.evaluate(&mut stack): the
\* evaluator pops its operands, unwrapping what the pops return
EvalEvaluatorPop ==
    /\ pc = "evaluate"
    /\ ip <= Len(expr)
    /\ expr[ip].kind = "Evaluator"
    /\ LET popped == EvaluatePop(family, expr[ip].ev, stack)
       IN  IF popped.val.some
           THEN /\ locals' = popped.val.val
                /\ stack' = popped.stack
                /\ pc' = "evaluator"
                /\ UNCHANGED outcome
           ELSE /\ Finish([tag |-> "Panic", why |-> "unwrap on None"])
                /\ UNCHANGED <<stack, locals>>
    /\ UNCHANGED <<concurrent, rendered, family, input, final_expr, result, max_stack, expr,
                   variables, ip>>

\* Faulty variant of the step: an Err of the evaluator is dropped and the
\* loop goes on to the next token.
EvalEvaluatorApplyIgnoreErr ==
    /\ pc = "evaluator"
    /\ \E o \in EvaluateApply(family, expr[ip].ev, locals) :
          CASE o.kind = "push" ->
                  /\ stack' = StackPush(stack, o.vals[1])
                  /\ IF Len(o.vals) > 1
                     THEN /\ locals' = Tail2(o.vals)
                          /\ pc' = "second_push"
                          /\ UNCHANGED ip
                     ELSE /\ locals' = <<>>
                          /\ pc' = "evaluate"
                          /\ ip' = ip + 1
                  /\ UNCHANGED outcome
            [] o.kind = "err" ->
                  /\ locals' = <<>>
                  /\ pc' = "evaluate"
                  /\ ip' = ip + 1
                  /\ UNCHANGED <<stack, outcome>>
            [] o.kind = "panic" ->
                  /\ Finish([tag |-> "Panic", why |-> o.why])
                  /\ UNCHANGED <<stack, ip, locals>>
    /\ UNCHANGED <<concurrent, rendered, family, input, final_expr, result, max_stack, expr, variables>>

\* evaluator.evaluate(&mut stack)?: the evaluator computes on its operands,
\* and pushes its (first) result or returns its Err, which `?` returns from
\* evaluate_with_variables
EvalEvaluatorApply ==
    /\ pc = "evaluator"
    /\ \E o \in EvaluateApply(family, expr[ip].ev, locals) :
          CASE o.kind = "push" ->
                  /\ stack' = StackPush(stack, o.vals[1])
                  /\ IF Len(o.vals) > 1
                     THEN /\ locals' = Tail2(o.vals)
                          /\ pc' = "second_push"
                          /\ UNCHANGED ip
                     ELSE /\ locals' = <<>>
                          /\ pc' = "evaluate"
                          /\ ip' = ip + 1
                  /\ UNCHANGED outcome
            [] o.kind = "err" ->
                  /\ Finish([tag |-> "Err", err |-> o.err])
                  /\ UNCHANGED <<stack, ip, locals>>
            [] o.kind = "panic" ->
                  /\ Finish([tag |-> "Panic", why |-> o.why])
                  /\ UNCHANGED <<stack, ip, locals>>
    /\ UNCHANGED <<concurrent, rendered, family, input, final_expr, result, max_stack, expr, variables>>

\* Faulty variant of the step: Swap leaves out its second push.
EvalSecondPushSkipped ==
    /\ pc = "second_push"
    /\ locals' = <<>>
    /\ ip' = ip + 1
    /\ pc' = "evaluate"
    /\ UNCHANGED <<concurrent, rendered, family, input, final_expr, result, max_stack, expr,
                   variables, stack, outcome>>

\* Swap: the second stack.push
EvalSecondPush ==
    /\ pc = "second_push"
    /\ stack' = StackPush(stack, locals[1])
    /\ locals' = <<>>
    /\ ip' = ip + 1
    /\ pc' = "evaluate"
    /\ UNCHANGED <<concurrent, rendered, family, input, final_expr, result, max_stack, expr,
                   variables, outcome>>

\* Faulty variant of the step: after the last token the loop starts over
\* on a new Stack in place of returning.
EvalReturnStartOver ==
    /\ pc = "evaluate"
    /\ ip > Len(expr)
    /\ stack' = StackNew
    /\ ip' = 1
    /\ UNCHANGED <<concurrent, rendered, family, input, final_expr, result, max_stack, expr,
                   pc, variables, locals, outcome>>

\* Ok(stack.pop().unwrap()) after the last token
EvalReturn ==
    /\ pc = "evaluate"
    /\ ip > Len(expr)
    /\ LET popped == StackPop(stack)
       IN  IF popped.val.some
           THEN /\ Finish([tag |-> "Ok", val |-> popped.val.val])
                /\ stack' = popped.stack
           ELSE /\ Finish([tag |-> "Panic", why |-> "unwrap on None"])
                /\ UNCHANGED stack
    /\ UNCHANGED <<concurrent, rendered, family, input, final_expr, result, max_stack, expr,
                   variables, ip, locals>>

Next ==
    \/ \E token \in NextTokens(family, input) : FromIterNext(token)
    \/ FromIterEnd
    \/ \E container \in Containers(family) : EvaluateCall(container)
    \/ EvalOperand
    \/ EvalVariable
    \/ EvalEvaluatorPop
    \/ EvalEvaluatorApply
    \/ EvalSecondPush
    \/ EvalReturn

Spec == Init /\ [][Next]_vars

-----------------------------------------------------------------------------
(* Two calls of evaluate_with_variables on one Expression *)

\* evaluate_with_variables, one turn of its loop (or, after the last
\* token, its return) on the state c of a call: the states the call can be
\* in afterwards
EvaluateWithVariablesStep(fam, e, c) ==
    IF c.pc # "evaluate" THEN {}
    ELSE IF c.ip > Len(e)
    THEN LET popped == StackPop(c.stack)
         IN  {[c EXCEPT !.pc = "finished",
                        !.stack = popped.stack,
                        !.outcome =
                            IF popped.val.some
                            THEN [tag |-> "Ok", val |-> popped.val.val]
                            ELSE [tag |-> "Panic", why |-> "unwrap on None"]]}
    ELSE CASE e[c.ip].kind = "Operand" ->
                 {[c EXCEPT !.stack = StackPush(@, e[c.ip].val), !.ip = @ + 1]}
           [] e[c.ip].kind = "Variable" ->
                 LET var == GetVariable(fam, c.variables, e[c.ip].var)
                 IN  IF var.some
                     THEN {[c EXCEPT !.stack = StackPush(@, var.val),
                                     !.ip = @ + 1]}
                     ELSE {[c EXCEPT !.pc = "finished",
                                     !.outcome = [tag |-> "Panic",
                                                  why |-> "Variable not found"]]}
           [] e[c.ip].kind = "Evaluator" ->
                 {IF r.res.tag = "Ok"
                  THEN [c EXCEPT !.stack = r.stack, !.ip = @ + 1]
                  ELSE [c EXCEPT !.stack = r.stack, !.pc = "finished",
                                 !.outcome = r.res]
                  : r \in EvaluatorEvaluate(fam, e[c.ip].ev, c.stack)}

\* the state of a call at its entry: Stack::with_capacity(self.max_stack)
EnteredCall(container) ==
    [pc |-> "evaluate", variables |-> container, stack |-> StackNew, ip |-> 1,
     outcome |-> NoResult]

\* the results a call can end with from the state c, run to its end
RECURSIVE EvaluateWithVariablesFrom(_, _, _)
EvaluateWithVariablesFrom(fam, e, c) ==
    IF c.pc = "finished" THEN {c.outcome}
    ELSE UNION {EvaluateWithVariablesFrom(fam, e, d) :
                    d \in EvaluateWithVariablesStep(fam, e, c)}

\* evaluate_with_variables as a function of the Expression and of the
\* container: the results of a call that runs alone
EvaluateWithVariables(fam, e, container) ==
    EvaluateWithVariablesFrom(fam, e, EnteredCall(container))

\* another thread enters evaluate_with_variables on the Expression, with
\* its own container reference
ConcurrentCall(container) ==
    /\ result.tag = "Ok"
    /\ concurrent.pc = "idle"
    /\ concurrent' = EnteredCall(container)
    /\ UNCHANGED <<rendered, family, input, final_expr, result, max_stack, expr, pc,
                   variables, stack, ip, locals, outcome>>

\* Faulty variant of the step: the Stack is kept with the Expression and
\* reused, so the other thread works on the stack of the first call.
ConcurrentStepSharedStack ==
    /\ concurrent.pc = "evaluate"
    /\ \E d \in EvaluateWithVariablesStep(family, expr,
                    [concurrent EXCEPT !.stack = stack]) :
          /\ concurrent' = d
          /\ stack' = d.stack
    /\ UNCHANGED <<rendered, family, input, final_expr, result, max_stack, expr, pc,
                   variables, ip, locals, outcome>>

\* the other thread runs one turn of its loop, or returns
ConcurrentStep ==
    /\ concurrent.pc = "evaluate"
    /\ concurrent' \in EvaluateWithVariablesStep(family, expr, concurrent)
    /\ UNCHANGED <<rendered, family, input, final_expr, result, max_stack, expr, pc,
                   variables, stack, ip, locals, outcome>>

NextConcurrent ==
    \/ Next
    \/ \E container \in Containers(family) : ConcurrentCall(container)
    \/ ConcurrentStep

SpecConcurrent == Init /\ [][NextConcurrent]_vars

-----------------------------------------------------------------------------
(* Evaluate::evaluate called on a stack of the caller *)

\* the operands of the binary evaluators: the ends of the range of i8, the
\* values around zero, and the operands of the tests
IntOperandValues ==
    {-128, -127, -120, -10, -2, -1, 0, 1, 2, 3, 4, 7, 9, 10, 20, 30, 64, 125, 127}

FloatOperandValues == {F32(FALSE, 3, 0), F32(TRUE, 5, -1), F32(FALSE, 0, 0)}

\* the top of the stack: nothing, any one value, any pair with -1, 0 or 1
\* on top, the pairs of IntOperandValues
TopStacks(fam) ==
    IF IsFloat(fam)
    THEN {<<>>} \cup {<<a>> : a \in FloatOperandValues}
           \cup {<<a, b>> : a \in FloatOperandValues, b \in FloatOperandValues}
    ELSE {<<>>} \cup {<<a>> : a \in I8Min..I8Max}
           \cup {<<a, b>> : a \in I8Min..I8Max, b \in {-1, 0, 1}}
           \cup {<<a, b>> : a \in IntOperandValues, b \in IntOperandValues}

\* what lies below
BelowStacks(fam) ==
    {[i \in 1..n |-> IF IsFloat(fam) THEN F32(FALSE, 7, 0) ELSE 7] :
         n \in 0..MaxBelow}

Evaluators(fam) == IF IsFloat(fam) THEN FloatEvaluator ELSE IntEvaluator

\* A caller holds an evaluator (kept as the one token of expr) and a stack
\* of its own.
InitEvaluator ==
    /\ family \in {"IntExpr", "FloatExpr"}
    /\ concurrent = IdleCall
    /\ rendered = NoResult
    /\ input = <<>>
    /\ final_expr = <<>>
    /\ result = NoResult
    /\ max_stack = 0
    /\ \E ev \in Evaluators(family) : expr = <<Evaluator(ev)>>
    /\ pc = "direct"
    /\ variables = <<>>
    /\ \E below \in BelowStacks(family), top \in TopStacks(family) :
           stack = below \o top
    /\ ip = 1
    /\ locals = <<>>
    /\ outcome = NoResult

\* evaluator.evaluate(&mut stack)
EvaluateDirect ==
    /\ pc = "direct"
    /\ \E r \in EvaluatorEvaluate(family, expr[1].ev, stack) :
          /\ stack' = r.stack
          /\ outcome' = r.res
    /\ pc' = "finished"
    /\ UNCHANGED <<family, input, final_expr, result, max_stack, expr,
                   variables, ip, locals, concurrent, rendered>>

\* Expressions built and evaluated, and evaluators called directly
NextEvaluator ==
    \/ Next
    \/ EvaluateDirect

InitExpressionOrEvaluator == Init \/ InitEvaluator

SpecEvaluator == InitExpressionOrEvaluator /\ [][NextEvaluator]_vars

-----------------------------------------------------------------------------
(* Rendering an Expression *)

\* the instantiations whose three types have a Display
DisplayFamilies == {"IntExpr", "KeyedIntExpr", "FloatExpr"}

InitDisplay ==
    /\ family \in DisplayFamilies
    /\ concurrent = IdleCall
    /\ rendered = NoResult
    /\ input = <<>>
    /\ final_expr = <<>>
    /\ result = NoResult
    /\ max_stack = 0
    /\ expr = <<>>
    /\ pc = "from_iter"
    /\ variables = <<>>
    /\ stack = <<>>
    /\ ip = 0
    /\ locals = <<>>
    /\ outcome = NoResult

\* expr.to_string() on the Expression from_iter returned
ToStringCall ==
    /\ pc = "expression"
    /\ rendered' = ExpressionToString(family, expr)
    /\ UNCHANGED <<family, input, final_expr, result, max_stack, expr, pc,
                   variables, stack, ip, locals, outcome, concurrent>>

NextDisplay ==
    \/ \E token \in NextTokens(family, input) : FromIterNext(token)
    \/ FromIterEnd
    \/ ToStringCall

SpecDisplay == InitDisplay /\ [][NextDisplay]_vars

-----------------------------------------------------------------------------
(* Every instantiation built, evaluated and rendered *)

\* the instantiations whose variable type is DummyVariable
DummyVariableFamilies == {"IntExpr", "FloatExpr"}

InitExpression ==
    /\ family \in Families \cup DummyVariableFamilies
    /\ concurrent = IdleCall
    /\ rendered = NoResult
    /\ input = <<>>
    /\ final_expr = <<>>
    /\ result = NoResult
    /\ max_stack = 0
    /\ expr = <<>>
    /\ pc = "from_iter"
    /\ variables = <<>>
    /\ stack = <<>>
    /\ ip = 0
    /\ locals = <<>>
    /\ outcome = NoResult

\* to_string() where the three types have a Display
ToStringWhereDisplay ==
    /\ family \in DisplayFamilies
    /\ ToStringCall

\* from_iter, then evaluate_with_variables (evaluate() where the container
\* is DummyVariables) and to_string()
NextExpression ==
    \/ Next
    \/ ToStringWhereDisplay

SpecExpression == InitExpression /\ [][NextExpression]_vars

-----------------------------------------------------------------------------
(* A call of evaluate_with_variables runs to its end *)

\* the steps of a call of evaluate_with_variables that has been entered
EvaluateRun ==
    \/ EvalOperand
    \/ EvalVariable
    \/ EvalEvaluatorPop
    \/ EvalEvaluatorApply
    \/ EvalSecondPush
    \/ EvalReturn

\* evaluate_with_variables is one `for` loop of sequential code, without a
\* yield, a lock or a wait: once entered, the thread goes on to the next
\* step as long as there is one.
SpecTerminating == Init /\ [][Next]_vars /\ WF_vars(EvaluateRun)

-----------------------------------------------------------------------------
(* An Expression evaluated again and again *)

\* Faulty variant of the step: the Stack of the earlier call is kept and
\* used again.
EvaluateAgainKeepStack ==
    /\ pc = "finished"
    /\ result.tag = "Ok"
    /\ outcome.tag \in {"Ok", "Err"}
    /\ ip' = 1
    /\ locals' = <<>>
    /\ pc' = "evaluate"
    /\ UNCHANGED <<concurrent, rendered, family, input, final_expr, result, max_stack, expr,
                   variables, stack, outcome>>

\* The caller, holding what the earlier call returned, calls
\* evaluate_with_variables once more on the same Expression with the same
\* container: Stack::with_capacity(self.max_stack) again.  `outcome` keeps
\* the earlier result until the new call ends.
EvaluateAgain ==
    /\ pc = "finished"
    /\ result.tag = "Ok"
    /\ outcome.tag \in {"Ok", "Err"}
    /\ stack' = StackNew
    /\ ip' = 1
    /\ locals' = <<>>
    /\ pc' = "evaluate"
    /\ UNCHANGED <<concurrent, rendered, family, input, final_expr, result, max_stack, expr,
                   variables, outcome>>

NextRepeated ==
    \/ Next
    \/ EvaluateAgain

SpecRepeated == Init /\ [][NextRepeated]_vars

-----------------------------------------------------------------------------
(* Vocabulary of the properties *)

\* The arity balance after the first k tokens of e, counted from the
\* declared arities: +1 for an Operand or a Variable, minus operands_needed
\* plus operands_generated for an Evaluator.
RECURSIVE Balance(_, _, _)
Balance(fam, e, k) ==
    IF k = 0 THEN 0
    ELSE IF e[k].kind = "Evaluator"
         THEN Balance(fam, e, k - 1) - OperandsNeeded(fam, e[k].ev)
                  + OperandsGenerated(fam, e[k].ev)
         ELSE Balance(fam, e, k - 1) + 1

\* token k of e is an evaluator that needs more than the balance before it
UnderflowsAt(fam, e, k) ==
    /\ e[k].kind = "Evaluator"
    /\ OperandsNeeded(fam, e[k].ev) > Balance(fam, e, k - 1)

Underflows(fam, e) == \E k \in 1..Len(e) : UnderflowsAt(fam, e, k)

SetMax(S) == CHOOSE x \in S : \A y \in S : y <= x

\* the largest balance over the prefixes of e
MaxBalance(fam, e) == SetMax({Balance(fam, e, k) : k \in 0..Len(e)})

\* from_iter has returned an Expression
Built == result.tag = "Ok"

\* a call of evaluate_with_variables is running or has ended
Evaluating == pc \in {"evaluate", "evaluator", "second_push", "finished"}

HasEvaluator(e, needed) ==
    \E k \in 1..Len(e) :
        e[k].kind = "Evaluator" /\ OperandsNeeded(family, e[k].ev) = needed

-----------------------------------------------------------------------------
(* Properties *)

\* C1: every Expression from_iter returns holds a token sequence whose arity
\* balance, counted from 0, is never below what an evaluator needs and ends
\* at exactly 1.
C1_ExpressionBalanced ==
    Built =>
        /\ ~Underflows(family, expr)
        /\ Balance(family, expr, Len(expr)) = 1

\* an Expression with evaluators of two operands, three operands deep
C1_Witness ==
    /\ Built
    /\ HasEvaluator(expr, 2)
    /\ \E k \in 1..Len(expr) : Balance(family, expr, k) = 3

\* C2: evaluating an Expression from_iter returned never unwraps a None:
\* every pop of an evaluator and the final pop find their elements.
C2_NoStackUnderflow ==
    ~(outcome.tag = "Panic" /\ outcome.why = "unwrap on None")

\* a call that went through evaluators of one and of two operands and
\* through the final pop
C2_Witness ==
    /\ pc = "finished"
    /\ outcome.tag = "Ok"
    /\ HasEvaluator(expr, 1)
    /\ HasEvaluator(expr, 2)

\* C3: what check_validity answers is what the balance count gives:
\* NotEnoughOperand when some evaluator needs more than the balance before
\* it, whatever follows; otherwise Ok at a final balance of 1,
\* NotEnoughOperand at 0 and TooManyOperands above 1.
C3_ValidityMatchesCount ==
    /\ result.tag \in {"Ok", "OperandErr"} =>
          LET last == Balance(family, final_expr, Len(final_expr))
          IN  IF Underflows(family, final_expr)
              THEN result = OperandErr("NotEnoughOperand")
              ELSE /\ last >= 0
                   /\ last = 0 => result = OperandErr("NotEnoughOperand")
                   /\ last = 1 => result.tag = "Ok"
                   /\ last > 1 => result = OperandErr("TooManyOperands")
    /\ (input = <<>> /\ pc # "from_iter")
          => result = OperandErr("NotEnoughOperand")
    /\ (input = <<<<"4">>, tAdd>> /\ pc # "from_iter")
          => result = OperandErr("NotEnoughOperand")
    /\ (input = <<<<"3">>, <<"3">>, <<"4">>, tAdd>> /\ pc # "from_iter")
          => result = OperandErr("TooManyOperands")

\* an underflow followed by tokens that bring the final balance back to 1
C3_Witness ==
    /\ result = OperandErr("NotEnoughOperand")
    /\ \E k \in 1..(Len(final_expr) - 1) : UnderflowsAt(family, final_expr, k)
    /\ Balance(family, final_expr, Len(final_expr)) = 1

\* C4: a token is classified Evaluator when the evaluator conversion
\* succeeds, else Variable when the variable conversion succeeds, else
\* Operand when the operand conversion succeeds, whatever the conversions
\* of lower rank would answer.
C4_ClassificationPriority ==
    \A k \in 1..Len(final_expr) :
        LET eval == EvaluatorTryIntoRef(family, input[k])
            var == VariableTryIntoRef(family, input[k])
            op == OperandTryIntoRef(family, input[k])
        IN  /\ eval.ok => final_expr[k] = Evaluator(eval.val)
            /\ (~eval.ok /\ var.ok) => final_expr[k] = Variable(var.val)
            /\ (~eval.ok /\ ~var.ok /\ op.ok) => final_expr[k] = Operand(op.val)
            /\ eval.ok \/ var.ok \/ op.ok

\* a token both the variable and the operand conversion accept
C4_Witness ==
    \E k \in 1..Len(final_expr) :
        /\ final_expr[k].kind = "Variable"
        /\ OperandTryIntoRef(family, input[k]).ok

\* C5: when a token fails the three conversions, from_iter returns
\* InvalidToken with the three failures of that token, and no Expression.
C5_InvalidTokenCarriesFailures ==
    /\ result.tag = "InvalidToken" =>
          LET token == input[Len(input)]
          IN  /\ result.evaluator = [tag |-> "InvalidExpr", tok |-> token]
              /\ ~VariableTryIntoRef(family, token).ok
              /\ result.variable = VariableTryIntoRef(family, token).err
              /\ family \in {"VariableIntExpr", "VariableFloatExpr"}
                    /\ token[1] # "$"
                    => result.variable =
                           [tag |-> "InvalidVariableName", tok |-> token]
              /\ ~OperandTryIntoRef(family, token).ok
              /\ result.operand = OperandTryIntoRef(family, token).err
              /\ pc = "returned_err"
              /\ expr = <<>>
              /\ Len(final_expr) = Len(input) - 1
    /\ (input = <<<<"3">>, <<"4">>, tAdd, tAmp>>)
          => /\ result.tag = "InvalidToken"
             /\ result.evaluator = [tag |-> "InvalidExpr", tok |-> tAmp]

\* "3 4 + &"
C5_Witness ==
    /\ input = <<<<"3">>, <<"4">>, tAdd, tAmp>>
    /\ result.tag = "InvalidToken"
    /\ family = "VariableIntExpr"

\* C6: max_stack of a returned Expression is the largest value the arity
\* balance reaches over the token sequence.
C6_MaxStackIsPeakBalance ==
    /\ Built => max_stack = MaxBalance(family, expr)
    /\ (Built /\ input = <<<<"3">>, <<"4">>, tAdd, <<"2">>, tMul>>)
          => max_stack = 2

\* a peak of 3 that is not the final balance
C6_Witness ==
    /\ Built
    /\ max_stack = 3
    /\ Balance(family, expr, Len(expr)) = 1

\* C7: during evaluate_with_variables the stack never holds more than
\* max_stack values, the states inside an evaluator included.
C7_StackWithinCapacity ==
    Evaluating => StackLen(stack) <= max_stack

\* between the two pushes of Swap, one value below a max_stack of 3
C7_Witness ==
    /\ pc = "second_push"
    /\ StackLen(stack) = max_stack - 1
    /\ max_stack = 3
    /\ IsFloat(family)

\* C8: once the last token is processed the stack holds exactly one value,
\* and the call returns Ok of that value, leaving the stack empty.
C8_OneValueRemains ==
    /\ [](pc = "evaluate" /\ ip > Len(expr) => StackLen(stack) = 1)
    /\ [][(pc = "evaluate" /\ ip > Len(expr))
            => /\ pc' = "finished"
               /\ outcome' = [tag |-> "Ok", val |-> stack[1]]
               /\ stack' = <<>>]_vars
    /\ [](outcome.tag = "Ok" => pc = "finished" /\ ip = Len(expr) + 1)

\* a call returned Ok after evaluators and a variable
C8_Witness ==
    /\ pc = "finished"
    /\ outcome.tag = "Ok"
    /\ HasEvaluator(expr, 2)
    /\ \E k \in 1..Len(expr) : expr[k].kind = "Variable"

\* C9: pop_two_operands on a stack of two elements or more removes exactly
\* the top two and returns (left, right), left being the one pushed
\* earlier; a binary evaluator computes left op right.
C9_PopTwoOrder ==
    /\ [][(pc = "evaluate" /\ pc' = "evaluator"
             /\ OperandsNeeded(family, expr[ip].ev) = 2)
            => /\ locals' = <<stack[Len(stack) - 1], stack[Len(stack)]>>
               /\ stack' = SubSeq(stack, 1, Len(stack) - 2)]_vars
    /\ [][(pc = "evaluator" /\ pc' = "evaluate" /\ expr[ip].ev = "Div")
            => stack' = Append(stack,
                   IF IsFloat(family) THEN F32Term("Div", <<locals[1], locals[2]>>)
                   ELSE TruncDiv(locals[1], locals[2]))]_vars
    /\ [][(pc = "evaluator" /\ pc' = "evaluate" /\ expr[ip].ev = "Sub")
            => stack' = Append(stack,
                   IF IsFloat(family) THEN F32Term("Sub", <<locals[1], locals[2]>>)
                   ELSE locals[1] - locals[2])]_vars
    /\ []((pc = "finished" /\ family \in {"IntExpr", "VariableIntExpr"}
             /\ input = <<<<"4">>, <<"3">>, tSub>>)
            => outcome = [tag |-> "Ok", val |-> 1])
    /\ []((pc = "finished" /\ family \in {"IntExpr", "VariableIntExpr"}
             /\ input = <<<<"9">>, <<"3">>, tDiv>>)
            => outcome = [tag |-> "Ok", val |-> 3])

\* a binary evaluator has popped two different operands off a stack of
\* three
C9_Witness ==
    /\ pc = "evaluator"
    /\ Len(locals) = 2
    /\ locals[1] # locals[2]
    /\ StackLen(stack) = 1
    /\ expr[ip].ev = "Div"
    /\ ~IsFloat(family)

\* C10: an Err of an evaluator ends evaluate_with_variables with that Err
\* at once: the failing evaluator is the last token processed, nothing is
\* pushed or popped after it, and nothing happens after the return.
C10_ErrReturnsAtOnce ==
    /\ [][(pc = "evaluator"
             /\ \E o \in EvaluateApply(family, expr[ip].ev, locals) :
                    o.kind = "err")
            => /\ pc' = "finished"
               /\ outcome'.tag = "Err"
               /\ Fails(outcome'.err)
                      \in EvaluateApply(family, expr[ip].ev, locals)
               /\ UNCHANGED <<stack, ip, expr, variables>>]_vars
    /\ [][pc = "finished" => UNCHANGED vars]_vars
    /\ [](outcome.tag = "Err"
            => /\ pc = "finished"
               /\ ip \in 1..Len(expr)
               /\ expr[ip].kind = "Evaluator"
               /\ StackLen(stack) = Balance(family, expr, ip - 1)
                                      - OperandsNeeded(family, expr[ip].ev))
    /\ []((pc = "finished" /\ family \in {"IntExpr", "VariableIntExpr"}
             /\ input = <<<<"1", "2", "5">>, <<"2", "0">>, tAdd>>)
            => outcome = [tag |-> "Err",
                          err |-> IntEvaluateErr("AddOverflow", <<125, 20>>)])

\* an evaluator failed with tokens left after it
C10_Witness ==
    /\ outcome.tag = "Err"
    /\ ip < Len(expr)

\* C11: no call of from_iter or of evaluate_with_variables ends in an abort:
\* every failure is returned as an Err.
C11_NoAbort ==
    /\ outcome.tag # "Panic"
    /\ result.tag # "Panic"

\* C12: when evaluate_with_variables reaches a Variable that the container
\* does not hold, the call aborts at that token: it returns neither Ok nor
\* Err, and nothing is pushed.  A call aborts this way at no other place.
C12_MissingVariableAborts ==
    /\ [][(pc = "evaluate" /\ ip <= Len(expr) /\ expr[ip].kind = "Variable"
             /\ ~GetVariable(family, variables, expr[ip].var).some)
            => /\ pc' = "finished"
               /\ outcome' = [tag |-> "Panic", why |-> "Variable not found"]
               /\ UNCHANGED <<stack, ip>>]_vars
    /\ []((outcome.tag = "Panic" /\ outcome.why = "Variable not found")
            => /\ pc = "finished"
               /\ expr[ip].kind = "Variable"
               /\ ~GetVariable(family, variables, expr[ip].var).some
               /\ family = "VariableIntExpr" => expr[ip].var >= Len(variables)
               /\ family = "KeyedIntExpr" => expr[ip].var \notin DOMAIN variables)
    /\ [][(pc = "evaluate" /\ ip <= Len(expr) /\ expr[ip].kind = "Variable"
             /\ GetVariable(family, variables, expr[ip].var).some)
            => /\ pc' = "evaluate"
               /\ outcome' = NoResult
               /\ stack' = Append(stack,
                      GetVariable(family, variables, expr[ip].var).val)]_vars

\* a call aborted on a missing variable after it had pushed values, with
\* tokens left, the container holding another key
C12_Witness ==
    /\ outcome = [tag |-> "Panic", why |-> "Variable not found"]
    /\ StackLen(stack) > 0
    /\ ip < Len(expr)
    /\ family = "KeyedIntExpr"
    /\ variables # <<>>

\* C13: from_iter returns an Expression only once every token the iterator
\* yielded is classified and check_validity answered Ok; a classification
\* or arity failure returns an error and no Expression, nothing follows it,
\* an evaluation runs on a returned Expression only and never ends in a
\* classification or arity error, and a returned Expression stays as built.
C13_ConstructionOneWay ==
    /\ [](Built =>
            /\ pc \notin {"from_iter", "returned_err"}
            /\ Len(expr) = Len(input)
            /\ \A k \in 1..Len(input) :
                   ClassifyToken(family, input[k]) = Ok(expr[k])
            /\ CheckValidity(family, expr) = Ok(<<>>)
            /\ max_stack >= 1)
    /\ [](pc = "from_iter" => result = NoResult /\ expr = <<>>)
    /\ [](result.tag \in {"InvalidToken", "OperandErr"} =>
            /\ pc = "returned_err"
            /\ expr = <<>>
            /\ outcome = NoResult
            /\ \/ Len(input) > 0 /\ ~ClassifyToken(family, input[Len(input)]).ok
               \/ ~CheckValidity(family, final_expr).ok)
    /\ [][pc = "returned_err" => UNCHANGED vars]_vars
    /\ [](Evaluating => Built)
    /\ [](outcome.tag = "Err" =>
            outcome.err.tag \notin {"InvalidToken", "OperandErr",
                                    "NotEnoughOperand", "TooManyOperands"})
    /\ [][Built => (Built' /\ UNCHANGED <<result, expr, max_stack, input,
                                          final_expr, family>>)]_vars

\* an arity failure after every token was classified, tokens of each kind
\* among them
C13_Witness ==
    /\ result.tag = "OperandErr"
    /\ pc = "returned_err"
    /\ Len(final_expr) >= 3
    /\ \E k \in 1..Len(final_expr) : final_expr[k].kind = "Evaluator"
    /\ \E k \in 1..Len(final_expr) : final_expr[k].kind = "Variable"

\* C14: from its entry to its return, whether it returns Ok or Err,
\* evaluate_with_variables leaves the Expression (expr and max_stack) and
\* the variable container as they were: the Expression is the one from_iter
\* built and the container the one the caller passed.
C14_EvaluateFrame ==
    /\ [][(pc \in {"expression", "evaluate", "evaluator", "second_push"})
            => UNCHANGED <<expr, max_stack, family>>]_vars
    /\ [][(pc \in {"evaluate", "evaluator", "second_push"})
            => UNCHANGED variables]_vars
    /\ [](Evaluating =>
            /\ expr = final_expr
            /\ max_stack = ComputeStackMax(family, final_expr)
            /\ variables \in Containers(family))

\* a call that read a variable of a container of two values and returned
\* an Err
C14_Witness ==
    /\ pc = "finished"
    /\ outcome.tag = "Err"
    /\ \E k \in 1..(ip - 1) : expr[k].kind = "Variable"
    /\ family = "VariableIntExpr"
    /\ Len(variables) = 2

\* C15: when two calls of evaluate_with_variables run on one Expression,
\* each with its own stack and container reference, then under every
\* interleaving of their steps each call ends with a result it has when it
\* runs alone, and a step of one call leaves the stack, the position and
\* the result of the other as they were.
C15_ConcurrentCallsIndependent ==
    /\ [](pc = "finished" =>
            outcome \in EvaluateWithVariables(family, expr, variables))
    /\ [](concurrent.pc = "finished" =>
            concurrent.outcome
                \in EvaluateWithVariables(family, expr, concurrent.variables))
    /\ [][concurrent' # concurrent
            => UNCHANGED <<pc, variables, stack, ip, locals, outcome,
                           expr, max_stack>>]_vars
    /\ [][<<pc, variables, stack, ip, locals, outcome>>'
               # <<pc, variables, stack, ip, locals, outcome>>
            => UNCHANGED concurrent]_vars
    /\ []((pc = "finished" /\ concurrent.pc = "finished"
             /\ variables = concurrent.variables
             /\ outcome.tag # "Panic" /\ concurrent.outcome.tag # "Panic")
            => outcome = concurrent.outcome)

\* the first call is between the two pushes of a Swap while the second has
\* processed one token, on another container
C15_Witness ==
    /\ pc = "second_push"
    /\ concurrent.pc = "evaluate"
    /\ concurrent.ip = 2
    /\ concurrent.stack # stack
    /\ concurrent.variables # variables

\* the text of a token sequence: the tokens in order, one space between
\* two of them
RECURSIVE JoinSpace(_)
JoinSpace(tokens) ==
    IF Len(tokens) = 0 THEN <<>>
    ELSE IF Len(tokens) = 1 THEN tokens[1]
    ELSE tokens[1] \o <<" ">> \o JoinSpace(Tail(tokens))

\* the token is the text Display writes for what it was classified as
CanonicalToken(fam, token) ==
    /\ ClassifyToken(fam, token).ok
    /\ ArithmDisplay(fam, ClassifyToken(fam, token).val) = Ok(token)

\* C16 as stated: to_string() of an Expression built from a sequence of
\* tokens gives back that sequence, one space between two tokens.
C16_RenderReproducesText ==
    rendered # NoResult => rendered = [tag |-> "Ok", val |-> JoinSpace(input)]

\* C16, amended: to_string() writes the tokens in their order, each as the
\* text Display gives its value, with one space between two tokens and none
\* before the first or after the last; it gives back the token sequence
\* the Expression was built from when every token of that sequence is
\* such a text, as in "3 3 + neg neg 4 +".
C16_RenderCanonicalText ==
    rendered # NoResult =>
        /\ rendered.tag = "Ok"
        /\ \A k \in 1..Len(expr) : ArithmDisplay(family, expr[k]).ok
        /\ rendered.val =
              JoinSpace([k \in 1..Len(expr) |-> ArithmDisplay(family, expr[k]).val])
        /\ rendered.val[1] # " "
        /\ rendered.val[Len(rendered.val)] # " "
        /\ Cardinality({i \in 1..Len(rendered.val) : rendered.val[i] = " "})
              = Len(expr) - 1
        /\ (\A k \in 1..Len(input) : CanonicalToken(family, input[k]))
              => rendered.val = JoinSpace(input)
        /\ input = <<<<"3">>, <<"3">>, tAdd, tNeg, tNeg, <<"4">>, tAdd>>
              => rendered.val = <<"3", " ", "3", " ", "+", " ", "n", "e", "g", " ",
                                 "n", "e", "g", " ", "4", " ", "+">>

\* "3 3 + neg neg 4 +" rendered
C16_Witness ==
    /\ rendered.tag = "Ok"
    /\ input = <<<<"3">>, <<"3">>, tAdd, tNeg, tNeg, <<"4">>, tAdd>>
    /\ \A k \in 1..Len(input) : CanonicalToken(family, input[k])

\* the call of evaluate in a step of a direct call: the evaluator, the
\* stack before and the stack below the operands the evaluator declares
DirectCall == pc = "direct" /\ pc' = "finished"

DirectNeeded == OperandsNeeded(family, expr[1].ev)

DirectBelow == SubSeq(stack, 1, Len(stack) - DirectNeeded)

\* C17: when evaluate of a built-in evaluator succeeds on a stack of at
\* least operands_needed elements, the stack is afterwards operands_needed
\* shorter and operands_generated longer, and what lay below the consumed
\* elements lies there unchanged; this for every variant of IntEvaluator
\* and of FloatEvaluator.
C17_ArityMatchesEvaluate ==
    /\ [][(DirectCall /\ outcome'.tag = "Ok")
            => /\ Len(stack) >= DirectNeeded
               /\ Len(stack') = Len(stack) - DirectNeeded
                                  + OperandsGenerated(family, expr[1].ev)
               /\ SubSeq(stack', 1, Len(stack) - DirectNeeded) = DirectBelow]_vars
    /\ [][(DirectCall /\ Len(stack) >= DirectNeeded /\ IsFloat(family))
            => outcome'.tag = "Ok"]_vars
    /\ [][(DirectCall /\ Len(stack) < DirectNeeded)
            => outcome'.tag = "Panic"]_vars

\* Swap has succeeded on a stack of three floats
C17_Witness ==
    /\ pc = "finished"
    /\ Len(input) = 0
    /\ outcome.tag = "Ok"
    /\ expr[1].ev = "Swap"
    /\ Len(stack) = 3
    /\ IsFloat(family)

\* the operands a direct call consumes, in program order
DirectOperands == SubSeq(stack, Len(stack) - DirectNeeded + 1, Len(stack))

\* base^exp for exp >= 0, exact as long as it is within the range of i8;
\* beyond, some value out of that range
RECURSIVE Power(_, _)
Power(base, exp) ==
    IF exp = 0 THEN 1
    ELSE LET r == Power(base, exp - 1)
         IN  IF InI8(r) THEN base * r ELSE r

\* what an IntEvaluator variant pushes in exact integer arithmetic
IntExact(ev, ops) ==
    CASE ev = "Add" -> <<ops[1] + ops[2]>>
      [] ev = "Sub" -> <<ops[1] - ops[2]>>
      [] ev = "Mul" -> <<ops[1] * ops[2]>>
      [] ev = "Div" -> <<TruncDiv(ops[1], ops[2])>>
      [] ev = "Rem" -> <<TruncRem(ops[1], ops[2])>>
      [] ev = "Neg" -> <<-ops[1]>>
      [] ev = "Pow" -> <<Power(ops[1], ops[2])>>
      [] ev = "Swap" -> <<ops[2], ops[1]>>
      [] ev = "Zero" -> <<0>>
      [] ev = "One" -> <<1>>

\* C18: for every IntEvaluator variant and all operands of i8, the minimum
\* and -1 included, evaluate pushes the exact result or returns an
\* IntEvaluateErr: it never aborts and never pushes another value.
C18_IntEvaluateExactOrErr ==
    [][(DirectCall /\ ~IsFloat(family) /\ Len(stack) >= DirectNeeded)
         => \/ /\ outcome'.tag = "Err"
               /\ outcome'.err.tag \in
                      {"ConvertToU32", "AddOverflow", "SubUnderflow",
                       "MulOverflow", "PowOverflow", "InvalidDiv", "InvalidRem"}
            \/ /\ outcome'.tag = "Ok"
               /\ stack' = DirectBelow \o IntExact(expr[1].ev, DirectOperands)]_vars

\* the instantiations in which a number is an i8 operand
IntFamilies == {"IntExpr", "VariableIntExpr"}

\* the name of the error of Add, Sub and Mul
OverflowErr(ev) ==
    CASE ev = "Add" -> "AddOverflow"
      [] ev = "Sub" -> "SubUnderflow"
      [] ev = "Mul" -> "MulOverflow"

\* C19: Add, Sub and Mul of IntEvaluator on (left, right) push left + right,
\* left - right, left * right when that exact result is within i8;
\* otherwise they return AddOverflow(left, right), SubUnderflow(left,
\* right), MulOverflow(left, right) and push nothing.  This in a direct
\* call, in a step of an evaluation, and for "125 20 +", "-120 30 -" and
\* "30 20 *".
C19_AddSubMulExactOrOverflow ==
    /\ [][(DirectCall /\ ~IsFloat(family) /\ Len(stack) >= 2
             /\ expr[1].ev \in {"Add", "Sub", "Mul"})
            => LET exact == IntExact(expr[1].ev, DirectOperands)[1]
               IN  IF InI8(exact)
                   THEN /\ outcome' = [tag |-> "Ok"]
                        /\ stack' = DirectBelow \o <<exact>>
                   ELSE /\ outcome' =
                              [tag |-> "Err",
                               err |-> IntEvaluateErr(OverflowErr(expr[1].ev),
                                           <<stack[Len(stack) - 1],
                                             stack[Len(stack)]>>)]
                        /\ stack' = DirectBelow]_vars
    /\ [][(pc = "evaluator" /\ ~IsFloat(family)
             /\ expr[ip].ev \in {"Add", "Sub", "Mul"})
            => LET exact == IntExact(expr[ip].ev, locals)[1]
               IN  IF InI8(exact)
                   THEN /\ pc' = "evaluate"
                        /\ stack' = Append(stack, exact)
                   ELSE /\ pc' = "finished"
                        /\ outcome' =
                              [tag |-> "Err",
                               err |-> IntEvaluateErr(OverflowErr(expr[ip].ev),
                                           locals)]
                        /\ stack' = stack]_vars
    /\ []((pc = "finished" /\ family \in IntFamilies
             /\ input = <<<<"1", "2", "5">>, <<"2", "0">>, tAdd>>)
            => outcome = [tag |-> "Err",
                          err |-> IntEvaluateErr("AddOverflow", <<125, 20>>)])
    /\ []((pc = "finished" /\ family \in IntFamilies
             /\ input = <<<<"-", "1", "2", "0">>, <<"3", "0">>, tSub>>)
            => outcome = [tag |-> "Err",
                          err |-> IntEvaluateErr("SubUnderflow", <<-120, 30>>)])
    /\ []((pc = "finished" /\ family \in IntFamilies
             /\ input = <<<<"3", "0">>, <<"2", "0">>, tMul>>)
            => outcome = [tag |-> "Err",
                          err |-> IntEvaluateErr("MulOverflow", <<30, 20>>)])

\* Sub has underflowed on two different operands, above another element
C19_Witness ==
    /\ pc = "finished"
    /\ Len(input) = 0
    /\ outcome = [tag |-> "Err",
                  err |-> IntEvaluateErr("SubUnderflow", <<-120, 30>>)]
    /\ stack = <<7>>

\* the name of the error of Div and Rem
InvalidErr(ev) ==
    CASE ev = "Div" -> "InvalidDiv"
      [] ev = "Rem" -> "InvalidRem"

\* C20: Div and Rem of IntEvaluator with the right operand 0 return
\* InvalidDiv(left, 0) and InvalidRem(left, 0) for every left operand and
\* push nothing; an evaluation that meets them returns that error, never a
\* value: "9 0 /" gives InvalidDiv(9, 0) and "9 0 %" InvalidRem(9, 0).
C20_DivRemByZero ==
    /\ [][(DirectCall /\ ~IsFloat(family) /\ Len(stack) >= 2
             /\ expr[1].ev \in {"Div", "Rem"} /\ stack[Len(stack)] = 0)
            => /\ outcome' =
                     [tag |-> "Err",
                      err |-> IntEvaluateErr(InvalidErr(expr[1].ev),
                                  <<stack[Len(stack) - 1], 0>>)]
               /\ stack' = DirectBelow]_vars
    /\ [][(pc = "evaluator" /\ ~IsFloat(family)
             /\ expr[ip].ev \in {"Div", "Rem"} /\ locals[2] = 0)
            => /\ pc' = "finished"
               /\ outcome' =
                     [tag |-> "Err",
                      err |-> IntEvaluateErr(InvalidErr(expr[ip].ev),
                                  <<locals[1], 0>>)]
               /\ stack' = stack]_vars
    /\ []((pc = "finished" /\ family \in IntFamilies
             /\ input = <<<<"9">>, <<"0">>, tDiv>>)
            => outcome = [tag |-> "Err",
                          err |-> IntEvaluateErr("InvalidDiv", <<9, 0>>)])
    /\ []((pc = "finished" /\ family \in IntFamilies
             /\ input = <<<<"9">>, <<"0">>, tRem>>)
            => outcome = [tag |-> "Err",
                          err |-> IntEvaluateErr("InvalidRem", <<9, 0>>)])
    /\ []((outcome.tag = "Err" /\ outcome.err.tag \in {"InvalidDiv", "InvalidRem"})
            => \/ outcome.err.args[2] = 0
               \/ outcome.err = IntEvaluateErr("InvalidDiv", <<I8Min, -1>>))

\* Rem has refused the divisor 0 under the minimum of i8, above another
\* element
C20_Witness ==
    /\ pc = "finished"
    /\ Len(input) = 0
    /\ outcome = [tag |-> "Err",
                  err |-> IntEvaluateErr("InvalidRem", <<I8Min, 0>>)]
    /\ stack = <<7>>

\* the container holds the key v
HoldsKey(fam, container, v) ==
    IF fam = "KeyedIntExpr" THEN v \in DOMAIN container
    ELSE v + 1 \in DOMAIN container

\* the container holds every key the tokens of e refer to
HoldsAllKeys(fam, e, container) ==
    \A k \in 1..Len(e) :
        e[k].kind = "Variable" => HoldsKey(fam, container, e[k].var)

\* the value the container holds for the key v
ContainerValue(fam, container, v) ==
    IF fam = "KeyedIntExpr" THEN container[v] ELSE container[v + 1]

\* e with every Variable(v) replaced by Operand(container value of v)
Substitute(fam, e, container) ==
    [k \in 1..Len(e) |->
        IF e[k].kind = "Variable"
        THEN Operand(ContainerValue(fam, container, e[k].var))
        ELSE e[k]]

HasVariable(e) == \E k \in 1..Len(e) : e[k].kind = "Variable"

\* C21: with a container that holds every key of a validated Expression,
\* evaluate_with_variables returns what the evaluation of the Expression
\* with each Variable(v) replaced by Operand(container value of v) returns;
\* "3 4 + $0 -" with a container whose first value is 3 evaluates to 4
\* (for f32, to the float (3 + 4) - 3).
C21_VariablesAsOperands ==
    /\ (Evaluating /\ Built /\ HoldsAllKeys(family, expr, variables))
          => /\ EvaluateWithVariables(family, expr, variables)
                  = EvaluateWithVariables(family,
                        Substitute(family, expr, variables), variables)
             /\ pc = "finished"
                   => outcome \in EvaluateWithVariables(family,
                          Substitute(family, expr, variables), variables)
    /\ (/\ pc = "finished"
        /\ input = <<<<"3">>, <<"4">>, tAdd, tVar0, tSub>>
        /\ Len(variables) = 2)
          => CASE family = "VariableIntExpr" ->
                      outcome = [tag |-> "Ok", val |-> 4]
               [] family = "VariableFloatExpr" ->
                      outcome =
                        [tag |-> "Ok",
                         val |-> F32Term("Sub",
                                   <<F32Term("Add", <<F32(FALSE, 3, 0),
                                                      F32(FALSE, 4, 0)>>),
                                     F32(FALSE, 3, 0)>>)]
               [] OTHER -> TRUE

\* "3 4 + $0 -" has returned 4 with the container [3, 50]
C21_Witness ==
    /\ pc = "finished"
    /\ family = "VariableIntExpr"
    /\ input = <<<<"3">>, <<"4">>, tAdd, tVar0, tSub>>
    /\ HasVariable(expr)
    /\ variables = <<3, 50>>
    /\ outcome = [tag |-> "Ok", val |-> 4]

\* a call of evaluate_with_variables is entered in this step
CallEntered == pc \in {"expression", "finished"} /\ pc' = "evaluate"

\* a call of evaluate_with_variables ends in this step
CallEnded == pc \in {"evaluate", "evaluator"} /\ pc' = "finished"

\* the Expression meets `-a` on the minimum of i8, whose outcome is a
\* matter of the build and not of the call
BuildDependent(fam, e, container) ==
    Cardinality(EvaluateWithVariables(fam, e, container)) > 1

\* C22: every call of evaluate_with_variables starts from an empty stack at
\* the first token, and a call repeated on the same Expression with the same
\* container ends as the earlier call did, also when the earlier call
\* returned an evaluator error: the outcome is a function of the Expression
\* and of the container (in one build: the outcome of `-a` on the minimum
\* of i8 is fixed by the build).
C22_RepeatedCallsAgree ==
    /\ [][CallEntered => (stack' = StackNew /\ ip' = 1)]_vars
    /\ [][(CallEnded /\ outcome.tag # "None")
            => \/ outcome' = outcome
               \/ BuildDependent(family, expr, variables)]_vars
    /\ [][CallEnded => outcome' \in EvaluateWithVariables(family, expr, variables)]_vars

\* a call repeated after the evaluator error of "$0 3 zero / +" has pushed
\* its three values again
C22_Witness ==
    /\ pc = "evaluate"
    /\ outcome.tag = "Err"
    /\ ip = 4
    /\ stack = <<3, 3, 0>>

\* C23: a call of evaluate_with_variables on an Expression of n tokens
\* ends (Ok, Err or abort).  It takes the tokens in sequence order, each at
\* most once: the index of the next token only moves to its successor, when
\* a token is done, and never beyond n + 1, so the call ends after n tokens
\* at most.
C23_EvaluationTerminates ==
    /\ (pc = "evaluate") ~> (pc = "finished")
    /\ [][(Evaluating /\ pc # "finished")
            => /\ pc' \in {"evaluate", "evaluator", "second_push", "finished"}
               /\ ip' = IF pc' = "evaluate" THEN ip + 1 ELSE ip]_vars
    /\ [](Evaluating => (ip >= 1 /\ ip <= Len(expr) + 1))
    /\ []((pc = "finished" /\ outcome.tag = "Ok") => ip = Len(expr) + 1)
    /\ [][(pc = "evaluate" /\ ip = Len(expr) + 1) => pc' = "finished"]_vars

\* the call on the seven tokens of "3 3 + neg neg 4 +" has ended after the
\* seventh
C23_Witness ==
    /\ pc = "finished"
    /\ Len(expr) = 7
    /\ ip = 8
    /\ outcome.tag = "Ok"

\* the evaluators that take their operands with pop_two_operands
PopsTwo(fam, ev) == ev \in {"Add", "Sub", "Mul", "Div", "Rem", "Pow", "Swap"}

\* C24: pop_two_operands on a stack of fewer than two elements (none or
\* one) returns None and leaves the stack as it is: a lone element is not
\* removed.  An evaluator called on such a stack stops at the unwrap of that
\* None with the stack unchanged.
C24_PopTwoOnShortStack ==
    /\ [](Len(stack) < 2 => PopTwoOperands(stack) = [val |-> None, stack |-> stack])
    /\ [][(DirectCall /\ PopsTwo(family, expr[1].ev) /\ Len(stack) < 2)
            => /\ stack' = stack
               /\ outcome' = [tag |-> "Panic", why |-> "unwrap on None"]]_vars

\* Add has been called on a stack of one element
C24_Witness ==
    /\ pc = "finished"
    /\ Len(input) = 0
    /\ expr = <<Evaluator("Add")>>
    /\ stack = <<I8Min>>
    /\ outcome = [tag |-> "Panic", why |-> "unwrap on None"]

\* C25: Swap (of IntEvaluator and of FloatEvaluator) exchanges the two
\* values on top of the stack and leaves what is below as it was; a second
\* Swap gives the first stack back.  "2 4 swap /" evaluates to 4 / 2 = 2
\* (for f32, to the float 4 / 2).
C25_SwapExchangesTop ==
    /\ [][(DirectCall /\ expr[1].ev = "Swap" /\ Len(stack) >= 2)
            => /\ outcome' = [tag |-> "Ok"]
               /\ stack' = DirectBelow
                             \o <<stack[Len(stack)], stack[Len(stack) - 1]>>
               /\ EvaluatorEvaluate(family, "Swap", stack')
                     = {[res |-> [tag |-> "Ok"], stack |-> stack]}]_vars
    /\ [][(pc = "second_push" /\ expr[ip].ev = "Swap")
            => /\ pc' = "evaluate"
               /\ stack' = Append(stack, locals[1])]_vars
    /\ []((pc = "finished" /\ input = <<<<"2">>, <<"4">>, tSwap, tDiv>>)
            => CASE family \in IntFamilies -> outcome = [tag |-> "Ok", val |-> 2]
                 [] family = "VariableFloatExpr" ->
                        outcome = [tag |-> "Ok",
                                   val |-> F32Term("Div", <<F32(FALSE, 4, 0),
                                                            F32(FALSE, 2, 0)>>)]
                 [] OTHER -> TRUE)

\* Swap has been called on 127 and -1 above another element
C25_Witness ==
    /\ pc = "finished"
    /\ Len(input) = 0
    /\ family = "IntExpr"
    /\ expr = <<Evaluator("Swap")>>
    /\ stack = <<7, -1, 127>>
    /\ outcome = [tag |-> "Ok"]

\* C26: while evaluate_with_variables runs on an Expression from_iter
\* returned, the stack holds, after the first i tokens have been processed
\* without error, as many elements as the arity balance check_validity
\* counts over the first i tokens, for every i from 0 to the number of
\* tokens.
C26_StackLengthIsBalance ==
    /\ (Built /\ pc = "evaluate")
          => /\ ip - 1 \in 0..Len(expr)
             /\ Len(stack) = Balance(family, expr, ip - 1)
    /\ (Built /\ pc = "finished" /\ ip = Len(expr) + 1)
          => Len(stack) = Balance(family, expr, Len(expr)) - 1

\* three tokens of an Expression with a binary evaluator are done and
\* three values lie on the stack
C26_Witness ==
    /\ Built
    /\ pc = "evaluate"
    /\ ip - 1 = 3
    /\ Len(stack) = 3
    /\ HasEvaluator(expr, 2)
    /\ \E k \in 1..Len(expr) : expr[k].kind = "Evaluator" /\ expr[k].ev = "Swap"

\* the token fails the three conversions
FailsAllConversions(fam, token) ==
    /\ ~EvaluatorTryIntoRef(fam, token).ok
    /\ ~VariableTryIntoRef(fam, token).ok
    /\ ~OperandTryIntoRef(fam, token).ok

\* C27: a token that fails the three conversions decides the result of
\* from_iter before any arity failure does: from_iter returns InvalidToken
\* for the first such token of the sequence, also when the tokens before it
\* underflow the arity balance or leave it unbalanced ("+ &" gives
\* InvalidToken, not NotEnoughOperand).  check_validity runs, and an
\* OperandErr or an Expression is returned, only once the iterator has
\* ended with every token classified.
C27_InvalidTokenBeforeArity ==
    /\ [](\A k \in 1..Len(input) :
            FailsAllConversions(family, input[k])
              => /\ k = Len(input)
                 /\ pc = "returned_err"
                 /\ result.tag = "InvalidToken"
                 /\ result.evaluator = EvaluatorTryIntoRef(family, input[k]).err
                 /\ final_expr = [j \in 1..(k - 1) |->
                                     ClassifyToken(family, input[j]).val])
    /\ [][(result.tag = "None" /\ result'.tag \in {"OperandErr", "Ok"})
            => /\ input' = input
               /\ Len(final_expr) = Len(input)
               /\ \A k \in 1..Len(input) : ClassifyToken(family, input[k]).ok
               /\ result'.tag = "Ok" <=> CheckValidity(family, final_expr).ok]_vars
    /\ []((input = <<tAdd, tAmp>>) => result.tag = "InvalidToken")

\* "+ &": InvalidToken after an evaluator that lacks its operands
C27_Witness ==
    /\ input = <<tAdd, tAmp>>
    /\ result.tag = "InvalidToken"
    /\ Underflows(family, final_expr)
    /\ ~CheckValidity(family, final_expr).ok

VariableNotFound == [tag |-> "Panic", why |-> "Variable not found"]

\* token k of e is a Variable whose key the container lacks
MissingAt(fam, e, container, k) ==
    e[k].kind = "Variable" /\ ~HoldsKey(fam, container, e[k].var)

\* C28: the first failing token in sequence order decides how
\* evaluate_with_variables ends.  When an evaluator returns Err, the call
\* returns that Err at once: no Variable before it lacked its key, and a
\* Variable after it whose key is missing is never looked up (no abort).
\* When a Variable whose key is missing comes first, the call aborts there
\* and no later token is run.
C28_FirstFailureDecides ==
    /\ []((pc = "finished" /\ Built /\ outcome.tag = "Err")
            => /\ expr[ip].kind = "Evaluator"
               /\ \A k \in 1..(ip - 1) : ~MissingAt(family, expr, variables, k))
    /\ []((pc = "finished" /\ Built /\ outcome = VariableNotFound)
            => /\ MissingAt(family, expr, variables, ip)
               /\ \A k \in 1..(ip - 1) : ~MissingAt(family, expr, variables, k))
    /\ [][(pc = "evaluate" /\ ip <= Len(expr)
             /\ MissingAt(family, expr, variables, ip))
            => /\ pc' = "finished"
               /\ outcome' = VariableNotFound
               /\ UNCHANGED <<ip, stack>>]_vars
    /\ [][(pc = "evaluator" /\ pc' = "finished" /\ outcome'.tag = "Err")
            => UNCHANGED <<ip, stack, variables>>]_vars
    /\ [][(pc = "finished" /\ pc' = "finished") => UNCHANGED <<ip, stack, outcome>>]_vars
    /\ []((/\ pc = "finished"
           /\ family = "VariableIntExpr"
           /\ variables = <<>>
           /\ input = <<<<"3">>, tZero, tDiv, tVar0, tAdd>>)
            => /\ ip = 3
               /\ outcome = [tag |-> "Err",
                             err |-> IntEvaluateErr("InvalidDiv", <<3, 0>>)])
    /\ []((/\ pc = "finished"
           /\ family = "VariableIntExpr"
           /\ variables = <<>>
           /\ input = <<tVar0, <<"3">>, tZero, tDiv, tAdd>>)
            => /\ ip = 1
               /\ outcome = VariableNotFound)

\* "3 zero / $0 +" called with an empty container has returned the Err of
\* Div; the Variable behind it lacks its key
C28_Witness ==
    /\ pc = "finished"
    /\ variables = <<>>
    /\ input = <<<<"3">>, tZero, tDiv, tVar0, tAdd>>
    /\ outcome.tag = "Err"
    /\ \E k \in (ip + 1)..Len(expr) : MissingAt(family, expr, variables, k)

\* C29: an Expression from_iter returns has one token at least and a
\* max_stack of 1 at least.  The empty token sequence is rejected with
\* NotEnoughOperand, and Display, which computes len - 1 in its loop, is
\* never run on an Expression without tokens.
C29_ExpressionNotEmpty ==
    /\ [](Built => (Len(expr) >= 1 /\ max_stack >= 1))
    /\ [][(pc = "from_iter" /\ input = <<>> /\ pc' # "from_iter" /\ input' = input)
            => /\ pc' = "returned_err"
               /\ result' = OperandErr("NotEnoughOperand")
               /\ expr' = <<>>]_vars
    /\ []((pc = "returned_err" /\ input = <<>>)
            => result = OperandErr("NotEnoughOperand"))
    /\ [][rendered' # rendered => (Built /\ Len(expr) - 1 >= 0)]_vars

\* the Expression of the one token "zero" has been rendered
C29_Witness ==
    /\ Built
    /\ input = <<tZero>>
    /\ Len(expr) = 1
    /\ max_stack = 1
    /\ rendered = [tag |-> "Ok", val |-> tZero]

\* C30: with DummyVariable as the variable type (FloatExpr, IntExpr) the
\* variable conversion fails on every token, so no token is classified as a
\* Variable: the Expression holds Operand and Evaluator tokens only,
\* evaluate() never looks a variable up in the DummyVariables container, and
\* rendering never reaches the failing Display of DummyVariable.
C30_NoDummyVariableToken ==
    family \in DummyVariableFamilies =>
        /\ \A k \in 1..Len(input) : ~VariableTryIntoRef(family, input[k]).ok
        /\ \A k \in 1..Len(final_expr) : final_expr[k].kind \in {"Operand", "Evaluator"}
        /\ \A k \in 1..Len(expr) : expr[k].kind \in {"Operand", "Evaluator"}
        /\ ~(pc = "evaluate" /\ ip <= Len(expr) /\ expr[ip].kind = "Variable")
        /\ outcome # [tag |-> "Panic", why |-> "Variable not found"]
        /\ rendered.tag \in {"None", "Ok"}
        /\ result.tag = "Ok" => \A k \in 1..Len(expr) : ArithmDisplay(family, expr[k]).ok

\* a FloatExpr of operands and evaluators has been rendered and evaluated
C30_Witness ==
    /\ family = "FloatExpr"
    /\ tVar0 \in NextTokens(family, <<>>)
    /\ pc = "finished"
    /\ outcome.tag = "Ok"
    /\ rendered.tag = "Ok"
    /\ \E k \in 1..Len(expr) : expr[k].kind = "Operand"
    /\ \E k \in 1..Len(expr) : expr[k].kind = "Evaluator"

=============================================================================
